---------------------------- MODULE Spec2Model ----------------------------
(***************************************************************************)
(* Verification model of the route-reconstruction and trace-classification *)
(* engine of ProyectoMovilidad:                                            *)
(*   - Trace Denoiser     (Predicciones.py, Functions/points.py)           *)
(*   - Variant Classifier (Predicciones.py, clasificator.py)               *)
(*   - Connection Finder  (PuntosConexion.py)                              *)
(*   - Route Stitcher     (RutasFinales.py)                                *)
(* Each component has its own specification (SpecDenoise, SpecClassify,    *)
(* SpecConn, SpecStitch) over the shared variables; the variables of the   *)
(* components a specification does not exercise stay at their idle value.  *)
(***************************************************************************)
EXTENDS Integers, Sequences, FiniteSets, TLC

VARIABLES
    \* ---- Trace Denoiser ----
    gdf,                  \* the raw trace handed to clean_gps_data (rows in feed order)
    rounding_precision,   \* decimal places kept by group_points
    time_diff_threshold,  \* width of a Stage A window
    closer_threshold,     \* lookahead of Stage B
    impl,                 \* which of the two copies of the denoiser runs
    closest_gdf,          \* result of clean_gps_data(gdf, ...)
    second_gdf,           \* result of clean_gps_data(closest_gdf, ...)
    dpc,                  \* position of the denoiser run
    \* ---- Variant Classifier ----
    clean_gdf,            \* the trace handed to classify_route_variant
    route_gdf,            \* the candidate geometries, in row order
    cimpl,                \* which copy of classify_route_variant runs
    predicted,            \* what classify_route_variant returned
    cpc,                  \* position of the classifier run
    \* ---- Connection Finder ----
    street_graph,         \* the edges of the street graph, with their 'name' data
    street1,              \* first street name of the pair being searched
    street2,              \* second street name of the pair being searched
    intersecciones,       \* what checar_conexion_distancia returned for the pair
    searched,             \* whether the geodesic near-miss search ran for the pair
    calles_leg,           \* a leg's candidate-name lists, one per token
    conexiones_totales,   \* what generar_conexiones_entre_calles returned for the leg
    connpc,               \* position of the connection search
    \* ---- Route Stitcher ----
    data,                 \* the list of derivations, each with its 'ida' and 'vuelta' legs
    leg,                  \* which leg process_route is at: 1 = Ida, 2 = Vuelta
    routesFinal,          \* per token boundary, the candidate paths that passed the checks
    boundary,             \* index of the next iteration of the reduction loop
    totalRouteConfirmed,  \* confirmed paths of the leg, in append order
    totalRouteUnsure,     \* unconfirmed paths of the leg, in append order
    totalRouteGap,        \* gap paths of the leg, in append order
    lastRoute,            \* the path the chain last reached
    data1,                \* node last bound to data1 by the candidate loops (0: unbound)
    data2,                \* node last bound to data2 by the candidate loops (0: unbound)
    rutas,                \* results stored so far, one per finished leg
    spc,                  \* position of process_route
    \* ---- Batch classification ----
    script,               \* which batch runs: "Main" (genera_predicciones) or "deviation_analysis"
    units,                \* the traces of the (plate, day) units, in loop order
    branches,             \* the candidate geometries handed to every unit
    unit,                 \* index of the unit the loop is at
    clean_df,             \* the denoised trace of the unit at hand
    predicted_df,         \* what classify_route_variant returned for the unit at hand
    records,              \* the entries collected so far
    saved,                \* what the batch handed on at its end
    bpc,                  \* position of the batch
    \* ---- Parallel per-plate batch ----
    plates,               \* number of plates of the route; plate i is submitted i-th
    futures,              \* per plate: "none", "queued", "running", "result" or "exception"
    runs,                 \* per plate: how many times process_plate started on it
    yielded,              \* the futures as_completed has handed to the main thread
    all_streets,          \* the results collected, in the order they were appended
    ppc,                  \* position of the main thread
    \* ---- Name extraction and Name Resolver ----
    lista_calles,         \* the street fragments of a leg's text, in order
    street_list,          \* the gazetteer: the street names of the map
    lista_cruda,          \* the tokens extraer_nombres delivered
    nombres_calles,       \* per token, the candidate set built so far
    compared,             \* indexes of the tokens that were matched against the gazetteer
    npc                   \* position of the name pipeline

denoiseVars == <<gdf, rounding_precision, time_diff_threshold, closer_threshold,
                 impl, closest_gdf, second_gdf, dpc>>

classifyVars == <<clean_gdf, route_gdf, cimpl, predicted, cpc>>

connVars == <<street_graph, street1, street2, intersecciones, searched, calles_leg,
             conexiones_totales, connpc>>

stitchVars == <<data, leg, routesFinal, boundary, totalRouteConfirmed, totalRouteUnsure,
                totalRouteGap, lastRoute, data1, data2, rutas, spc>>

batchVars == <<script, units, branches, unit, clean_df, predicted_df, records, saved, bpc>>

poolVars == <<plates, futures, runs, yielded, all_streets, ppc>>

namesVars == <<lista_calles, street_list, lista_cruda, nombres_calles, compared, npc>>

vars == <<denoiseVars, classifyVars, connVars, stitchVars, batchVars, poolVars, namesVars>>

\* A call's outcome: the frame it returned, or the fact that it raised.
Ok(rows) == [status |-> "ok", rows |-> rows]

\* Outcome of a call that raised instead of returning.
Error == [status |-> "error", rows |-> << >>]

\* Value of a result that has not been computed yet.
NotRun == [status |-> "notrun", rows |-> << >>]

-----------------------------------------------------------------------------
(***************************************************************************)
(* Generic helpers                                                         *)
(***************************************************************************)
Min(a, b) == IF a <= b THEN a ELSE b

Abs(x) == IF x < 0 THEN -x ELSE x

RECURSIVE Concat(_)
\* pd.concat(frames) / list concatenation of a sequence of sequences
Concat(frames) ==
    IF frames = << >> THEN << >>
    ELSE Head(frames) \o Concat(Tail(frames))

RECURSIVE Flatten(_)
\* the concatenation of a sequence of sequences, by halves
Flatten(pieces) ==
    IF Len(pieces) = 0 THEN << >>
    ELSE IF Len(pieces) = 1 THEN pieces[1]
    ELSE Flatten(SubSeq(pieces, 1, Len(pieces) \div 2))
             \o Flatten(SubSeq(pieces, Len(pieces) \div 2 + 1, Len(pieces)))

-----------------------------------------------------------------------------
(***************************************************************************)
(* Trace Denoiser                                                          *)
(*                                                                         *)
(* Coordinates are integers in tenths of a degree, so that rounding to     *)
(* precision 1 keeps a coordinate and rounding to precision 0 moves it to  *)
(* the nearest multiple of 10 (ties to even, as numpy's round does).       *)
(* Times are integers in seconds.                                          *)
(***************************************************************************)
\* Longest raw trace fed to the denoiser.
MaxLen == 4

\* (lat, lon) pairs a raw GPS row may carry.
Coords == { <<0, 0>>, <<6, 0>>, <<12, 0>>, <<3, 1>> }

\* Timestamps a raw GPS row may carry (feed order is not sorted by the code).
Times == {0, 5}

Precisions == {0, 1}

Windows == {2, 5}

Lookaheads == {1, 2}

\* "Predicciones": src/Predicciones.py (GeoDataFrame copy, used by Main.py)
\* "points":       src/Functions/points.py (DataFrame copy, used by deviation_analysis.py)
Impls == {"Predicciones", "points"}

\* df['scale'] = 2 : the weight every raw row starts with
initial_scale == 2

RawRows == { [lat |-> c[1], lon |-> c[2], time |-> t, scale |-> initial_scale] :
             c \in Coords, t \in Times }

RawTraces == UNION { [1..n -> RawRows] : n \in 0..MaxLen }

\* 10 ** (1 - precision), the rounding step in tenths of a degree
Granularity(precision) == IF precision = 0 THEN 10 ELSE 1

\* Series.round(precision) on one value: nearest multiple, ties to even
Round(x, precision) ==
    LET g == Granularity(precision)
        q == x \div g
        r == x % g
    IN  IF 2 * r < g THEN q * g
        ELSE IF 2 * r > g THEN (q + 1) * g
        ELSE IF q % 2 = 0 THEN q * g ELSE (q + 1) * g

\* filtered_gdf.reset_index(drop=True): rows labelled 0..n-1 in feed order
reset_index(rows) ==
    [i \in 1..Len(rows) |->
        [idx |-> i - 1, lat |-> rows[i].lat, lon |-> rows[i].lon,
         time |-> rows[i].time, scale |-> rows[i].scale]]

\* The frame without its index labels (what a caller sees of the rows).
Values(frame) ==
    [i \in 1..Len(frame) |->
        [lat |-> frame[i].lat, lon |-> frame[i].lon,
         time |-> frame[i].time, scale |-> frame[i].scale]]

RECURSIVE InsertByIdx(_, _)
InsertByIdx(row, sorted) ==
    IF sorted = << >> THEN <<row>>
    ELSE IF row.idx < Head(sorted).idx THEN <<row>> \o sorted
    ELSE <<Head(sorted)>> \o InsertByIdx(row, Tail(sorted))

RECURSIVE sort_index(_)
\* unique_gdf.sort_index(): stable ascending sort on the index label
sort_index(frame) ==
    IF frame = << >> THEN << >>
    ELSE LET n == Len(frame)
         IN  InsertByIdx(frame[n], sort_index(SubSeq(frame, 1, n - 1)))

\* groupby key of a row
RoundedKey(row, precision) == <<Round(row.lat, precision), Round(row.lon, precision)>>

\* positions of the rows of frame that fall in the same group as frame[i]
GroupOf(frame, i, precision) ==
    { j \in 1..Len(frame) : RoundedKey(frame[j], precision) = RoundedKey(frame[i], precision) }

\* transform('idxmin'): position of the row whose label represents the group.
\* Predicciones.py takes idxmin of 'rounded_latitude', which is constant in
\* a group, so the first row of the group wins; Functions/points.py takes
\* idxmin of the raw 'Latitude', so the first row with the least latitude wins.
first_index(frame, i, precision, im) ==
    LET grp == GroupOf(frame, i, precision)
        least == CHOOSE j \in grp : \A k \in grp : frame[j].lat <= frame[k].lat
        best == IF im = "points"
                THEN { j \in grp : frame[j].lat = frame[least].lat }
                ELSE grp
    IN  CHOOSE j \in best : \A k \in best : j <= k

\* a transform('size') that counts every row as a group of its own
counts_one(frame, i, precision) == 1

\* transform('size')
counts(frame, i, precision) == Cardinality(GroupOf(frame, i, precision))

group_points(frame, precision, im) ==
    LET firsts == { frame[first_index(frame, i, precision, im)].idx : i \in 1..Len(frame) }
        scaled == [i \in 1..Len(frame) |->
                     [frame[i] EXCEPT !.scale = frame[i].scale * counts(frame, i, precision)]]
        unique_gdf == SelectSeq(scaled, LAMBDA row : row.idx \in firsts)
    IN  sort_index(unique_gdf)

\* gdf[(gdf['time'] >= start_time) & (gdf['time'] <= end_time)]
time_interval_gdf(frame, start_index, time_interval_s) ==
    LET start_time == frame[start_index + 1].time
        end_time == start_time + time_interval_s
    IN  SelectSeq(frame, LAMBDA row : row.time >= start_time /\ row.time <= end_time)

RECURSIVE IntervalFrames(_, _, _, _, _)
\* the while loop of group_within_intervals: the list `frames` from start_index on
IntervalFrames(frame, start_index, precision, time_interval_s, im) ==
    IF start_index >= Len(frame) THEN << >>
    ELSE LET window == time_interval_gdf(frame, start_index, time_interval_s)
         IN  IF window # << >>
             THEN <<group_points(window, precision, im)>>
                  \o IntervalFrames(frame, window[Len(window)].idx + 1,
                                    precision, time_interval_s, im)
             ELSE IntervalFrames(frame, start_index + 1, precision, time_interval_s, im)

RECURSIVE interval_windows(_, _, _)
\* the while loop of group_within_intervals: the non-empty time_interval_gdf
\* frames it hands to group_points, from start_index on
interval_windows(frame, start_index, time_interval_s) ==
    IF start_index >= Len(frame) THEN << >>
    ELSE LET window == time_interval_gdf(frame, start_index, time_interval_s)
         IN  IF window # << >>
             THEN <<window>>
                  \o interval_windows(frame, window[Len(window)].idx + 1, time_interval_s)
             ELSE interval_windows(frame, start_index + 1, time_interval_s)

\* pd.concat(frames) raises ValueError when frames is empty
group_within_intervals(frame, precision, time_interval_s, im) ==
    LET frames == IntervalFrames(frame, 0, precision, time_interval_s, im)
    IN  IF frames = << >> THEN Error ELSE Ok(Concat(frames))

\* squared Euclidean distance on (lat, lon): same argmin as the distance itself
Dist2(p, q) == (p.lat - q.lat) * (p.lat - q.lat) + (p.lon - q.lon) * (p.lon - q.lon)

\* an argmin that looks at every later position, whatever check_ahead is
i_min_whole_tail(frame, i, check_ahead) ==
    LET cand == (i + 1)..(Len(frame) - 1)
        d(j) == Dist2(frame[j + 1], frame[i + 1])
    IN  CHOOSE j \in cand :
            /\ \A k \in cand : d(j) <= d(k)
            /\ \A k \in cand : d(k) = d(j) => j <= k

\* np.argmin over positions i+1 .. min(i+check_ahead, n-1) (0-based): first minimum
i_min(frame, i, check_ahead) ==
    LET cand == { j \in (i + 1)..Min(i + check_ahead, Len(frame) - 1) : TRUE }
        d(j) == Dist2(frame[j + 1], frame[i + 1])
    IN  CHOOSE j \in cand :
            /\ \A k \in cand : d(j) <= d(k)
            /\ \A k \in cand : d(k) = d(j) => j <= k

RECURSIVE closer_coords_indexes(_, _, _)
\* the positions appended after position i (0-based)
closer_coords_indexes(frame, i, check_ahead) ==
    IF i >= Len(frame) - 1 THEN << >>
    ELSE LET nxt == i_min(frame, i, check_ahead)
         IN  <<nxt>> \o closer_coords_indexes(frame, nxt, check_ahead)

\* a selection that starts from the first jump instead of from position 0
closest_points_from_first_jump(frame, check_ahead) ==
    IF frame = << >> THEN Error
    ELSE LET sel == closer_coords_indexes(frame, 0, check_ahead)
         IN  Ok([k \in 1..Len(sel) |-> frame[sel[k] + 1]])

\* gdf.iloc[[0] + ...]: position 0 does not exist in an empty frame (IndexError)
closest_points(frame, check_ahead) ==
    IF frame = << >> THEN Error
    ELSE LET sel == <<0>> \o closer_coords_indexes(frame, 0, check_ahead)
         IN  Ok([k \in 1..Len(sel) |-> frame[sel[k] + 1]])

\* Functions/points.py resets every weight after Stage A (grouped_df['Scale'] = 2);
\* Predicciones.py keeps the amplified weights.
StandardizeScale(frame, im) ==
    IF im = "points"
    THEN [i \in 1..Len(frame) |-> [frame[i] EXCEPT !.scale = 2]]
    ELSE frame

clean_gps_data(rows, precision, time_interval_s, check_ahead, im) ==
    LET filtered_gdf == reset_index(rows)
        grouped_gdf == group_within_intervals(filtered_gdf, precision, time_interval_s, im)
    IN  IF grouped_gdf.status # "ok" THEN Error
        ELSE LET closest == closest_points(StandardizeScale(grouped_gdf.rows, im),
                                           check_ahead)
             IN  IF closest.status # "ok" THEN Error ELSE Ok(Values(closest.rows))

DenoiseInit ==
    /\ gdf \in RawTraces
    /\ rounding_precision \in Precisions
    /\ time_diff_threshold \in Windows
    /\ closer_threshold \in Lookaheads
    /\ impl \in Impls
    /\ closest_gdf = NotRun
    /\ second_gdf = NotRun
    /\ dpc = "raw"

DenoiseIdle ==
    /\ gdf = << >>
    /\ rounding_precision = 0
    /\ time_diff_threshold = 0
    /\ closer_threshold = 1
    /\ impl = "Predicciones"
    /\ closest_gdf = NotRun
    /\ second_gdf = NotRun
    /\ dpc = "idle"

\* clean_gps_data on the raw trace
Clean ==
    /\ dpc = "raw"
    /\ closest_gdf' = clean_gps_data(gdf, rounding_precision, time_diff_threshold,
                                     closer_threshold, impl)
    /\ dpc' = "cleaned"
    /\ UNCHANGED <<gdf, rounding_precision, time_diff_threshold, closer_threshold,
                   impl, second_gdf>>
    /\ UNCHANGED <<classifyVars, connVars, stitchVars, batchVars, poolVars, namesVars>>

\* clean_gps_data on its own output, same parameters
CleanAgain ==
    /\ dpc = "cleaned"
    /\ closest_gdf.status = "ok"
    /\ second_gdf' = clean_gps_data(closest_gdf.rows, rounding_precision, time_diff_threshold,
                                    closer_threshold, impl)
    /\ dpc' = "recleaned"
    /\ UNCHANGED <<gdf, rounding_precision, time_diff_threshold, closer_threshold,
                   impl, closest_gdf>>
    /\ UNCHANGED <<classifyVars, connVars, stitchVars, batchVars, poolVars, namesVars>>

DenoiseNext == Clean \/ CleanAgain

-----------------------------------------------------------------------------
(***************************************************************************)
(* Variant Classifier                                                      *)
(*                                                                         *)
(* Trace points and candidate geometries lie on one meridian (lon = 0), so *)
(* that shapely's Euclidean point-to-MultiPoint distance is the integer    *)
(* least |lat difference| and the summed distances compare exactly.        *)
(***************************************************************************)
\* Most candidate geometries in route_gdf.
MaxVariants == 3

\* Longest trace handed to the classifier.
MaxClassLen == 2

\* MultiPoint geometries a candidate row may carry (sets of latitudes)
Geometries == { {0}, {4}, {0, 4}, {2} }

ClassLats == {0, 1, 4}

RouteIds == {"RUTA 5", "RUTA 9"}

\* "Predicciones": src/Predicciones.py, "clasificator": src/clasificator.py,
\* "points": src/Functions/points.py
ClassImpls == {"Predicciones", "clasificator", "points"}

ClassRows == { [lat |-> x, route |-> r] : x \in ClassLats, r \in RouteIds }

ClassTraces == UNION { [1..n -> ClassRows] : n \in 0..MaxClassLen }

RouteFrames == UNION { [1..n -> Geometries] : n \in 1..MaxVariants }

\* route_row.geometry.distance(row.geometry)
distance(geometry, row) ==
    LET ds == { Abs(row.lat - g) : g \in geometry }
    IN  CHOOSE d \in ds : \A e \in ds : d <= e

RECURSIVE SumDistances(_, _)
\* the inner loop: total_distance += distance, over the rows of the trace
SumDistances(geometry, rows) ==
    IF rows = << >> THEN 0
    ELSE distance(geometry, Head(rows)) + SumDistances(geometry, Tail(rows))

\* the dictionary total_distances, keyed by the row position of the candidate
total_distances(rows, routes) ==
    [k \in 1..Len(routes) |-> SumDistances(routes[k], rows)]

\* min(total_distances, key=total_distances.get) picks the last key of the least value
LastClosestIndex(rows, routes) ==
    LET td == total_distances(rows, routes)
    IN  CHOOSE k \in 1..Len(routes) :
            /\ \A j \in 1..Len(routes) : td[k] <= td[j]
            /\ \A j \in 1..Len(routes) : td[j] = td[k] => j <= k

\* min(total_distances, key=total_distances.get): the first key, in insertion
\* order, whose value is least
closest_route_index(rows, routes) ==
    LET td == total_distances(rows, routes)
    IN  CHOOSE k \in 1..Len(routes) :
            /\ \A j \in 1..Len(routes) : td[k] <= td[j]
            /\ \A j \in 1..Len(routes) : td[j] = td[k] => k <= j

\* len(df['Route'].unique()) > 1
MixedRoutes(rows) == Cardinality({ rows[i].route : i \in 1..Len(rows) }) > 1

\* What the call hands back: "row" (the candidate row alone), "pair" (the
\* candidate row and its summed distance) or "none" (None after the
\* mixed-route message).
classify_route_variant(rows, routes, im) ==
    IF im # "Predicciones" /\ MixedRoutes(rows)
    THEN [kind |-> "none", index |-> 0, total |-> 0]
    ELSE LET k == closest_route_index(rows, routes)
         IN  [kind |-> IF im = "clasificator" THEN "pair" ELSE "row",
              index |-> k,
              total |-> total_distances(rows, routes)[k]]

NoPrediction == [kind |-> "notrun", index |-> 0, total |-> 0]

ClassifyInit ==
    /\ clean_gdf \in ClassTraces
    /\ route_gdf \in RouteFrames
    /\ cimpl \in ClassImpls
    /\ predicted = NoPrediction
    /\ cpc = "ready"

ClassifyIdle ==
    /\ clean_gdf = << >>
    /\ route_gdf = << >>
    /\ cimpl = "Predicciones"
    /\ predicted = NoPrediction
    /\ cpc = "idle"

Classify ==
    /\ cpc = "ready"
    /\ predicted' = classify_route_variant(clean_gdf, route_gdf, cimpl)
    /\ cpc' = "classified"
    /\ UNCHANGED <<clean_gdf, route_gdf, cimpl>>
    /\ UNCHANGED <<denoiseVars, connVars, stitchVars, batchVars, poolVars, namesVars>>

ClassifyNext == Classify

-----------------------------------------------------------------------------
(***************************************************************************)
(* Connection Finder                                                       *)
(*                                                                         *)
(* The street graph is five intersections on a line; geodesic distance is  *)
(* the difference of their positions in metres.  Which street names an     *)
(* edge carries is chosen freely.  Python iterates a set of node ids in an *)
(* order of its own; the model takes ascending id order.                   *)
(***************************************************************************)
\* position of each node, in metres
NodePos == <<0, 100, 300, 600, 1200>>

\* the (u, v) ends of the edges of the graph
EdgeEnds == << <<1, 2>>, <<2, 3>>, <<3, 4>>, <<4, 5>> >>

\* the 'name' datum of an edge: absent, one name, or a list of names
EdgeNames == { << >>, <<"Reforma">>, <<"Juarez">>, <<"Madero">>,
               <<"Reforma", "Juarez">>, <<"Juarez", "Madero">> }

\* street names the Name Resolver hands over (gazetteer entries, lower case)
StreetNames == {"reforma", "juarez", "madero"}

StreetGraphs ==
    { [k \in 1..Len(EdgeEnds) |->
          [u |-> EdgeEnds[k][1], v |-> EdgeEnds[k][2], name |-> lab[k]]] :
      lab \in [1..Len(EdgeEnds) -> EdgeNames] }

\* str.lower() on the names the graph carries
lower(name) ==
    CASE name = "Reforma" -> "reforma"
      [] name = "Juarez" -> "juarez"
      [] name = "Madero" -> "madero"
      [] OTHER -> name

\* geodesic(point1, point2).meters
geodesic(n1, n2) == Abs(NodePos[n1] - NodePos[n2])

\* umbral de distancia (metres)
umbral == 350

RECURSIVE SortedSeq(_)
\* the elements of a set of numbers, ascending
SortedSeq(S) ==
    IF S = {} THEN << >>
    ELSE LET lo == CHOOSE x \in S : \A y \in S : x <= y
         IN  <<lo>> \o SortedSeq(S \ {lo})

\* nodes_1 / nodes_2: the ends of the edges whose lower-cased names include street
nodes_of(street, graph) ==
    LET edges == { k \in 1..Len(graph) :
                     \E i \in 1..Len(graph[k].name) : lower(graph[k].name[i]) = street }
    IN  { graph[k].u : k \in edges } \cup { graph[k].v : k \in edges }

\* checar_conexion without the guard on equal names
checar_conexion_unguarded(s1, s2, graph) ==
    LET nodes_1 == nodes_of(s1, graph)
        nodes_2 == nodes_of(s2, graph)
        shared == SortedSeq(nodes_1 \cap nodes_2)
    IN  [intersect |-> [i \in 1..Len(shared) |-> <<shared[i], s1, s2>>],
         nodes_1 |-> nodes_1, nodes_2 |-> nodes_2]

checar_conexion(s1, s2, graph) ==
    IF s2 = s1
    THEN [intersect |-> << >>, nodes_1 |-> {}, nodes_2 |-> {}]
    ELSE LET nodes_1 == nodes_of(s1, graph)
             nodes_2 == nodes_of(s2, graph)
             shared == SortedSeq(nodes_1 \cap nodes_2)
         IN  [intersect |-> [i \in 1..Len(shared) |-> <<shared[i], s1, s2>>],
              nodes_1 |-> nodes_1, nodes_2 |-> nodes_2]

RECURSIVE PairDistances(_, _)
\* the list `distances`: (distance, n1) then (distance, n2) for each pair, in loop order
PairDistances(ns1, ns2) ==
    IF ns1 = << >> THEN << >>
    ELSE LET n1 == Head(ns1)
             row == Concat([j \in 1..Len(ns2) |->
                              << <<geodesic(n1, ns2[j]), n1>>,
                                 <<geodesic(n1, ns2[j]), ns2[j]>> >>])
         IN  row \o PairDistances(Tail(ns1), ns2)

\* lines 97-118: the geodesic near-miss search
near_miss(s1, s2, nodes_1, nodes_2) ==
    LET distances == PairDistances(SortedSeq(nodes_1), SortedSeq(nodes_2))
        unique_distances == SortedSeq({ distances[i][1] : i \in 1..Len(distances) })
    IN  IF Len(unique_distances) < 2 THEN << >>
        ELSE LET small == { unique_distances[1], unique_distances[2] }
                 nodes_int == SelectSeq(distances, LAMBDA t : t[1] \in small)
                 close == SelectSeq(nodes_int, LAMBDA t : t[1] <= umbral)
             IN  [i \in 1..Len(close) |-> <<close[i][2], s1, s2>>]

\* checar_conexion_distancia without the early return on a direct intersection
checar_conexion_distancia_always_search(s1, s2, graph) ==
    LET direct == checar_conexion(s1, s2, graph)
    IN  [result |-> direct.intersect \o near_miss(s1, s2, direct.nodes_1, direct.nodes_2),
         searched |-> TRUE]

\* result: the list returned; searched: whether lines 97-118 ran
checar_conexion_distancia(s1, s2, graph) ==
    LET direct == checar_conexion(s1, s2, graph)
    IN  IF direct.intersect # << >>
        THEN [result |-> direct.intersect, searched |-> FALSE]
        ELSE [result |-> near_miss(s1, s2, direct.nodes_1, direct.nodes_2),
              searched |-> TRUE]

\* Most tokens in one leg's list of candidate-name lists.
MaxTokens == 3

\* the candidate names of one token, in list order
NameLists == { <<"reforma">>, <<"juarez">>, <<"madero">>, <<"reforma", "juarez">> }

\* calles: a leg with at least one token boundary
Legs == UNION { [1..n -> NameLists] : n \in 2..MaxTokens }

\* lines 31-34: every punto the searches of one boundary return, in loop order
boundary_points(set1, set2, graph) ==
    Flatten([a \in 1..Len(set1) |->
        Flatten([b \in 1..Len(set2) |->
            checar_conexion_distancia(set1[a], set2[b], graph).result])])

\* the puntos of every boundary i, i+1 of the leg (line 27)
leg_points(legs, graph) ==
    [i \in 1..(Len(legs) - 1) |-> boundary_points(legs[i], legs[i + 1], graph)]

\* the filter with a conexiones_set that starts empty at every boundary
dedup_per_boundary(points) ==
    [i \in 1..Len(points) |->
        Flatten([k \in 1..Len(points[i]) |->
            IF \E m \in 1..(k - 1) : points[i][m][1] = points[i][k][1]
            THEN << >> ELSE <<points[i][k]>>])]

\* lines 25, 35-38: a punto is appended unless its node id is already in
\* conexiones_set, which holds the ids of every punto met so far in the call
dedup(points) ==
    [i \in 1..Len(points) |->
        Flatten([k \in 1..Len(points[i]) |->
            IF \/ \E j \in 1..(i - 1) : \E m \in 1..Len(points[j]) :
                      points[j][m][1] = points[i][k][1]
               \/ \E m \in 1..(k - 1) : points[i][m][1] = points[i][k][1]
            THEN << >> ELSE <<points[i][k]>>])]

\* lines 17-44
generar_conexiones_entre_calles(legs, graph) == dedup(leg_points(legs, graph))

ConnInit ==
    /\ street_graph \in StreetGraphs
    /\ street1 = ""
    /\ street2 = ""
    /\ intersecciones = << >>
    /\ searched = FALSE
    /\ calles_leg = << >>
    /\ conexiones_totales = << >>
    /\ connpc = "ready"

ConnIdle ==
    /\ street_graph = << >>
    /\ street1 = ""
    /\ street2 = ""
    /\ intersecciones = << >>
    /\ searched = FALSE
    /\ calles_leg = << >>
    /\ conexiones_totales = << >>
    /\ connpc = "idle"

\* one call checar_conexion_distancia(nombre1, nombre2, graph)
CheckPair ==
    /\ connpc = "ready"
    /\ \E s1, s2 \in StreetNames :
          LET got == checar_conexion_distancia(s1, s2, street_graph)
          IN  /\ street1' = s1
              /\ street2' = s2
              /\ intersecciones' = got.result
              /\ searched' = got.searched
    /\ connpc' = "checked"
    /\ UNCHANGED <<street_graph, calles_leg, conexiones_totales>>
    /\ UNCHANGED <<denoiseVars, classifyVars, stitchVars, batchVars, poolVars, namesVars>>

\* one call generar_conexiones_entre_calles(calles, graph)
GenerateConnections ==
    /\ connpc = "ready"
    /\ \E c \in Legs :
          /\ calles_leg' = c
          /\ conexiones_totales' = generar_conexiones_entre_calles(c, street_graph)
    /\ connpc' = "generated"
    /\ UNCHANGED <<street_graph, street1, street2, intersecciones, searched>>
    /\ UNCHANGED <<denoiseVars, classifyVars, stitchVars, batchVars, poolVars, namesVars>>

ConnNext == CheckPair \/ GenerateConnections

-----------------------------------------------------------------------------
(***************************************************************************)
(* Route Stitcher                                                          *)
(*                                                                         *)
(* The street graph is a directed graph of six intersections on a line     *)
(* (positions in metres); edge lengths are chosen so that every shortest   *)
(* path is unique.  Street names are sequences of characters, so that      *)
(* lower(), replace(), strip() and the `in` test are computed as Python    *)
(* computes them.                                                          *)
(***************************************************************************)
\* Most connection lists (token boundaries' anchors) in one leg.
MaxWay == 4

\* Most connection points in one connection list.
MaxConn == 2

StitchNodes == 1..6

\* G_undirected.nodes[n]: position of the node, in metres
StitchPos == <<0, 200, 400, 1000, 750, 12000>>

Sur == <<"s", "u", "r">>

Eje == <<"e", "j", "e">>

SurTitle == <<"S", "u", "r">>

EjeTitle == <<"E", "j", "e">>

AvenidaSur == <<"A", "v", "e", "n", "i", "d", "a", " ">> \o SurTitle

CalleEje == <<"C", "a", "l", "l", "e", " ">> \o EjeTitle

\* the edges of the directed graph: ends, 'length', and 'name' (a list of
\* labels; << >> when the edge has no name)
StitchEdges ==
    { [u |-> 1, v |-> 2, length |-> 200, name |-> <<AvenidaSur>>],
      [u |-> 2, v |-> 3, length |-> 200, name |-> <<SurTitle>>],
      [u |-> 3, v |-> 2, length |-> 200, name |-> <<SurTitle>>],
      [u |-> 3, v |-> 4, length |-> 700, name |-> <<CalleEje>>],
      [u |-> 2, v |-> 5, length |-> 600, name |-> <<EjeTitle>>],
      [u |-> 5, v |-> 4, length |-> 280, name |-> <<EjeTitle, SurTitle>>],
      [u |-> 4, v |-> 6, length |-> 11000, name |-> << >>] }

\* the names a connection point (node, street_a, street_b) carries for a node
PointNames ==
    << <<Sur, <<"a", "v", "e", "n", "i", "d", "a", " ">> \o Sur>>,
       <<Sur, <<"c", "a", "l", "l", "e", " ">> \o Eje>>,
       <<Sur, Eje>>,
       <<Eje, Sur>>,
       <<Sur, Eje>>,
       <<Eje, Sur>> >>

\* a ConnectionPoint as generar_conexiones_entre_calles emits it
Point(n) == <<n, PointNames[n][1], PointNames[n][2]>>

\* prefijos comunes en nombres de calles
prefixes ==
    << <<"c", "e", "r", "r", "a", "d", "a", " ">>,
       <<"c", "a", "l", "z", "a", "d", "a", " ">>,
       <<"a", "v", "e", "n", "i", "d", "a", " ">>,
       <<"c", "a", "l", "l", "e", " ">>,
       <<"p", "r", "o", "l", "o", "n", "g", "a", "c", "i", "ó", "n", " ">> >>

\* str.lower() on one character (the capitals the names use)
LowerChar(c) ==
    CASE c = "A" -> "a"
      [] c = "C" -> "c"
      [] c = "E" -> "e"
      [] c = "S" -> "s"
      [] c = "G" -> "g"
      [] c = "I" -> "i"
      [] c = "L" -> "l"
      [] c = "N" -> "n"
      [] c = "O" -> "o"
      [] c = "R" -> "r"
      [] c = "T" -> "t"
      [] c = "U" -> "u"
      [] c = "V" -> "v"
      [] OTHER -> c

\* str.lower()
str_lower(name) == [i \in 1..Len(name) |-> LowerChar(name[i])]

RECURSIVE str_replace(_, _)
\* name.replace(pre, ""): every occurrence of pre, left to right
str_replace(name, pre) ==
    IF Len(name) < Len(pre) THEN name
    ELSE IF SubSeq(name, 1, Len(pre)) = pre
         THEN str_replace(SubSeq(name, Len(pre) + 1, Len(name)), pre)
         ELSE <<Head(name)>> \o str_replace(Tail(name), pre)

RECURSIVE RemoveEach(_, _)
RemoveEach(name, pres) ==
    IF pres = << >> THEN name
    ELSE RemoveEach(str_replace(name, Head(pres)), Tail(pres))

remove_pre(name) == RemoveEach(name, prefixes)

RECURSIVE lstrip(_)
lstrip(name) ==
    IF name # << >> /\ Head(name) = " " THEN lstrip(Tail(name)) ELSE name

RECURSIVE rstrip(_)
rstrip(name) ==
    IF name # << >> /\ name[Len(name)] = " "
    THEN rstrip(SubSeq(name, 1, Len(name) - 1))
    ELSE name

\* str.strip()
str_strip(name) == rstrip(lstrip(name))

\* a in b, on strings
str_in(a, b) ==
    \E i \in 0..(Len(b) - Len(a)) : SubSeq(b, i + 1, i + Len(a)) = a

\* lines 94-97: the edge label and the anchor's street name are compatible
compatible(edge_name, street) ==
    LET mod_edge_name == str_strip(remove_pre(str_lower(edge_name)))
        mod_setWay_name == str_strip(remove_pre(str_lower(street)))
    IN  str_in(mod_setWay_name, mod_edge_name) \/ str_in(mod_edge_name, mod_setWay_name)

\* geodesic(point1, point2).meters between two nodes
geodesic_m(n1, n2) == Abs(StitchPos[n1] - StitchPos[n2])

Last(path) == path[Len(path)]

RECURSIVE PathsFrom(_, _, _)
\* the simple directed paths from a to b that avoid the nodes in seen
PathsFrom(a, b, seen) ==
    IF a = b THEN { <<a>> }
    ELSE UNION { { <<a>> \o q : q \in PathsFrom(e.v, b, seen \cup {a}) } :
                 e \in { e \in StitchEdges : e.u = a /\ e.v \notin (seen \cup {a}) } }

EdgeOf(a, b) == CHOOSE e \in StitchEdges : e.u = a /\ e.v = b

RECURSIVE PathLength(_)
PathLength(path) ==
    IF Len(path) < 2 THEN 0
    ELSE EdgeOf(path[1], path[2]).length + PathLength(Tail(path))

\* nx.shortest_path(graph, a, b, weight='length') for every pair of nodes;
\* << >> stands for nx.NetworkXNoPath
ShortestPaths ==
    [a \in StitchNodes |->
        [b \in StitchNodes |->
            LET ps == PathsFrom(a, b, {})
            IN  IF ps = {} THEN << >>
                ELSE CHOOSE q \in ps : \A r \in ps : PathLength(q) <= PathLength(r)]]

shortest_path(a, b) == ShortestPaths[a][b]

\* the anchor check of a variant that looks only at the two ends of the path
count_ends(setWay, route) ==
    Cardinality({ node \in setWay : node \in {route[1], Last(route)} })

\* count = sum(1 for node in setWay if node in route)
count(setWay, route) ==
    Cardinality({ node \in setWay : \E i \in 1..Len(route) : route[i] = node })

\* setWay: every element of every connection tuple of nodes1 + nodes2; only
\* its node ids can be found in a route, the street names never are
set_way(nodes1, nodes2) ==
    { nodes1[i][1] : i \in 1..Len(nodes1) } \cup { nodes2[i][1] : i \in 1..Len(nodes2) }

\* lines 85-99: every label of every edge route[j] -> route[j+1], for
\* j = 1 .. len(route) - 2 (0-based), is compatible with the name n1[2]
con_street(route, n1) ==
    \A j \in 2..(Len(route) - 1) :
        LET edge_names == EdgeOf(route[j], route[j + 1]).name
        IN  \A i \in 1..Len(edge_names) : compatible(edge_names[i], n1[3])

\* lines 71-101 for one (n1, n2): the route appended to `routes`, if any
candidate(n1, n2, setWay) ==
    IF geodesic_m(n1[1], n2[1]) < 10000
    THEN LET route == shortest_path(n1[1], n2[1])
         IN  IF route = << >> THEN << >>
             ELSE IF count(setWay, route) = 2 /\ con_street(route, n1)
                  THEN <<route>>
                  ELSE << >>
    ELSE << >>

\* lines 64-103 for one token boundary: the list `routes`
routes_of(nodes1, nodes2) ==
    LET setWay == set_way(nodes1, nodes2)
    IN  Concat([i \in 1..Len(nodes1) |->
                  Concat([j \in 1..Len(nodes2) |->
                            candidate(nodes1[i], nodes2[j], setWay)])])

\* lines 63-103: routesFinal of a leg
routes_final(way) ==
    [k \in 1..(Len(way) - 1) |-> routes_of(way[k], way[k + 1])]

RECURSIVE LastBound1(_, _, _)
\* the node data1 is left bound to after the candidate loops over way[k..]
LastBound1(way, k, bound) ==
    IF k >= Len(way) THEN bound
    ELSE LastBound1(way, k + 1,
                    IF way[k] # << >> THEN Last(way[k])[1] ELSE bound)

RECURSIVE LastBound2(_, _, _)
\* the node data2 is left bound to after the candidate loops over way[k..]
LastBound2(way, k, bound) ==
    IF k >= Len(way) THEN bound
    ELSE LastBound2(way, k + 1,
                    IF way[k] # << >> /\ way[k + 1] # << >>
                    THEN Last(way[k + 1])[1] ELSE bound)

\* lines 112-122: the pairs (r1, r2) of one iteration, in loop order
RoutePairs(route1, route2) ==
    Concat([i \in 1..Len(route1) |-> [j \in 1..Len(route2) |-> <<route1[i], route2[j]>>]])

\* line 120 raises: data1/data2 unbound, or no path between the two ends
bridge_raises(route1, route2, d1, d2) ==
    \E i \in 1..Len(route1) : \E j \in 1..Len(route2) :
        /\ Last(route1[i]) # route2[j][1]
        /\ \/ d1 = 0
           \/ d2 = 0
           \/ shortest_path(Last(route1[i]), route2[j][1]) = << >>

\* gap_distance of line 120: geodesic between data1 and data2 as the candidate
\* loops left them
gap_distance(d1, d2) == geodesic_m(d1, d2)

\* a reduction that also lists every path of a closing boundary as unconfirmed
iteration_lists_all_unsure(route1, route2, last, d1, d2) ==
    IF route2 # << >>
    THEN LET pairs == RoutePairs(route1, route2)
             chained == SelectSeq(pairs, LAMBDA pr : Last(pr[1]) = pr[2][1])
         IN  [routesDraw |-> [i \in 1..Len(chained) |-> chained[i][1]],
              gaps |-> << >>,
              unSureRoutes |-> << >>]
    ELSE [routesDraw |-> SelectSeq(route1,
                            LAMBDA r1 : last # << >> /\ r1[1] = Last(last)),
          gaps |-> << >>,
          unSureRoutes |-> route1]

\* lines 111-128: the lists built by one iteration of the reduction loop
iteration_lists(route1, route2, last, d1, d2) ==
    IF route2 # << >>
    THEN LET pairs == RoutePairs(route1, route2)
             chained == SelectSeq(pairs, LAMBDA pr : Last(pr[1]) = pr[2][1])
             apart == SelectSeq(pairs, LAMBDA pr : Last(pr[1]) # pr[2][1])
             bridged == IF apart # << >> /\ gap_distance(d1, d2) < 500
                        THEN apart ELSE << >>
         IN  [routesDraw |-> [i \in 1..Len(chained) |-> chained[i][1]],
              gaps |-> [i \in 1..Len(bridged) |->
                          [distance |-> gap_distance(d1, d2),
                           route |-> shortest_path(Last(bridged[i][1]), bridged[i][2][1]),
                           r1 |-> bridged[i][1]]],
              unSureRoutes |-> << >>]
    ELSE [routesDraw |-> SelectSeq(route1,
                            LAMBDA r1 : last # << >> /\ r1[1] = Last(last)),
          gaps |-> << >>,
          unSureRoutes |-> SelectSeq(route1,
                            LAMBDA r1 : ~(last # << >> /\ r1[1] = Last(last)))]

\* min(gaps, key=lambda x: x[0]): the first gap of least distance
min_gap(gaps) ==
    LET i == CHOOSE i \in 1..Len(gaps) :
                /\ \A j \in 1..Len(gaps) : gaps[i].distance <= gaps[j].distance
                /\ \A j \in 1..Len(gaps) :
                      gaps[j].distance = gaps[i].distance => i <= j
    IN  gaps[i]

\* a variant of line 130 that bridges whenever a bridge was found
bridges_any(lists) == lists.gaps # << >>

\* line 130: if not routesDraw and gaps
bridges(lists) == lists.routesDraw = << >> /\ lists.gaps # << >>

\* the connection lists a leg may be made of: up to MaxConn points, no node twice
ConnLists ==
    { c \in UNION { [1..n -> { Point(x) : x \in 1..5 }] : n \in 0..MaxConn } :
        \A i, j \in 1..Len(c) : i # j => c[i][1] # c[j][1] }

\* generar_conexiones_entre_calles emits a node at most once in a leg
NodeDisjoint(way) ==
    \A a, b \in 1..Len(way) : a # b =>
        \A i \in 1..Len(way[a]) : \A j \in 1..Len(way[b]) : way[a][i][1] # way[b][j][1]

RECURSIVE WaysOfLen(_)
\* conexiones_totales of n token pairs: node-disjoint sequences of n lists
WaysOfLen(n) ==
    IF n = 0 THEN { << >> }
    ELSE { w \in { Append(v, c) : v \in WaysOfLen(n - 1), c \in ConnLists } :
             NodeDisjoint(w) }

Ways == UNION { WaysOfLen(n) : n \in 2..MaxWay }

\* legs of the sibling direction: empty, a chain, anchors too far apart, and one
\* whose bridging query finds no path
SiblingWays ==
    { << >>,
      << <<Point(1)>>, <<Point(2)>>, <<Point(3)>> >>,
      << <<Point(4)>>, <<Point(6)>> >>,
      << <<Point(3)>>, <<Point(4), Point(2)>>, <<Point(5)>> >> }

\* der: a leg built from connection lists and its sibling leg, either way round
Derivation(way, sibling, outbound) ==
    IF outbound THEN [ida |-> way, vuelta |-> sibling]
    ELSE [ida |-> sibling, vuelta |-> way]

\* the leg process_route is at: enumerate([ida, vuelta])
Way == IF leg = 1 THEN data[1].ida ELSE data[1].vuelta

StitchInit ==
    /\ \E way \in Ways, sibling \in SiblingWays, outbound \in BOOLEAN :
          data = <<Derivation(way, sibling, outbound)>>
    /\ leg = 1
    /\ routesFinal = << >>
    /\ boundary = 1
    /\ totalRouteConfirmed = << >>
    /\ totalRouteUnsure = << >>
    /\ totalRouteGap = << >>
    /\ lastRoute = << >>
    /\ data1 = 0
    /\ data2 = 0
    /\ rutas = << >>
    /\ spc = "candidates"

StitchIdle ==
    /\ data = << >>
    /\ leg = 0
    /\ routesFinal = << >>
    /\ boundary = 0
    /\ totalRouteConfirmed = << >>
    /\ totalRouteUnsure = << >>
    /\ totalRouteGap = << >>
    /\ lastRoute = << >>
    /\ data1 = 0
    /\ data2 = 0
    /\ rutas = << >>
    /\ spc = "idle"

\* lines 59-106: the candidate paths of every token boundary of the leg, then
\* the reset of the three result lists and of lastRoute
Candidates ==
    /\ spc = "candidates"
    /\ routesFinal' = routes_final(Way)
    /\ data1' = LastBound1(Way, 1, data1)
    /\ data2' = LastBound2(Way, 1, data2)
    /\ totalRouteConfirmed' = << >>
    /\ totalRouteUnsure' = << >>
    /\ totalRouteGap' = << >>
    /\ lastRoute' = << >>
    /\ boundary' = 1
    /\ spc' = IF Len(Way) >= 2 THEN "reduce" ELSE "store"
    /\ UNCHANGED <<data, leg, rutas>>
    /\ UNCHANGED <<denoiseVars, classifyVars, connVars, batchVars, poolVars, namesVars>>

\* lines 108-140: one iteration of the reduction loop
Reduce ==
    /\ spc = "reduce"
    /\ LET route1 == routesFinal[boundary]
           route2 == IF boundary < Len(routesFinal)
                     THEN routesFinal[boundary + 1] ELSE << >>
           lists == iteration_lists(route1, route2, lastRoute, data1, data2)
       IN  IF route2 # << >> /\ bridge_raises(route1, route2, data1, data2)
           THEN /\ spc' = "error"
                /\ UNCHANGED <<boundary, totalRouteConfirmed, totalRouteUnsure,
                               totalRouteGap, lastRoute>>
           ELSE /\ IF bridges(lists)
                   THEN /\ totalRouteGap' =
                              IF min_gap(lists.gaps).distance < 500
                              THEN Append(totalRouteGap, min_gap(lists.gaps).route)
                              ELSE totalRouteGap
                        /\ totalRouteConfirmed' =
                              IF min_gap(lists.gaps).distance < 500
                              THEN Append(totalRouteConfirmed, min_gap(lists.gaps).r1)
                              ELSE totalRouteConfirmed
                        /\ lastRoute' = min_gap(lists.gaps).route
                   ELSE /\ totalRouteConfirmed' = totalRouteConfirmed \o lists.routesDraw
                        /\ lastRoute' = IF lists.routesDraw # << >>
                                        THEN Last(lists.routesDraw) ELSE lastRoute
                        /\ UNCHANGED totalRouteGap
                /\ totalRouteUnsure' = totalRouteUnsure \o lists.unSureRoutes
                /\ boundary' = boundary + 1
                /\ spc' = IF boundary < Len(routesFinal) THEN "reduce" ELSE "store"
    /\ UNCHANGED <<data, leg, routesFinal, data1, data2, rutas>>
    /\ UNCHANGED <<denoiseVars, classifyVars, connVars, batchVars, poolVars, namesVars>>

\* lines 142-152: the leg's result is stored; the next leg starts, or the
\* function returns rutas
Store ==
    /\ spc = "store"
    /\ rutas' = Append(rutas, [confirmada |-> totalRouteConfirmed,
                               hueco |-> totalRouteGap,
                               inconfirmada |-> totalRouteUnsure])
    /\ IF leg < 2
       THEN /\ leg' = leg + 1
            /\ spc' = "candidates"
       ELSE /\ leg' = leg
            /\ spc' = "returned"
    /\ UNCHANGED <<data, routesFinal, boundary, totalRouteConfirmed, totalRouteUnsure,
                   totalRouteGap, lastRoute, data1, data2>>
    /\ UNCHANGED <<denoiseVars, classifyVars, connVars, batchVars, poolVars, namesVars>>

StitchNext == Candidates \/ Reduce \/ Store

-----------------------------------------------------------------------------
(***************************************************************************)
(* Batch classification                                                    *)
(*                                                                         *)
(* The loop over (plate, day) units of genera_predicciones (Main.py) and   *)
(* of deviation_analysis.py: each unit's trace is denoised, classified and *)
(* recorded.  Neither loop handles an exception, so a unit that raises     *)
(* ends the batch.                                                         *)
(***************************************************************************)
\* Most (plate, day) units in one batch.
MaxUnits == 2

\* Longest trace of a unit.
MaxUnitLen == 2

Scripts == {"Main", "deviation_analysis"}

\* the rows a unit's trace may carry, all on the meridian lon = 0
UnitRows == { [lat |-> x, lon |-> 0, time |-> t, scale |-> initial_scale] :
              x \in {0, 4}, t \in Times }

\* plate_date_gdf: the rows of one plate on one day (none when the day is NaT)
UnitTraces == UNION { [1..n -> UnitRows] : n \in 0..MaxUnitLen }

\* branches_gdf / branches_df
BranchFrames == { << {0}, {4} >>, << {2} >>, << {0, 4}, {0} >> }

\* rounding_precision, time_diff_threshold, closer_threshold of the batch
batch_parameters == [rounding_precision |-> 1, time_diff_threshold |-> 2,
                     closer_threshold |-> 1]

\* the copy of the denoiser and classifier a script imports
imported(sc) == IF sc = "Main" THEN "Predicciones" ELSE "points"

\* clean_gps_data(plate_date_gdf, ...) as the script calls it
clean_unit(rows, sc) ==
    clean_gps_data(rows, batch_parameters.rounding_precision,
                   batch_parameters.time_diff_threshold,
                   batch_parameters.closer_threshold, imported(sc))

\* the denoised rows as the classifier reads them; deviation_analysis.py has
\* filtered the feed to one route
classified_rows(rows) == [i \in 1..Len(rows) |-> [lat |-> rows[i].lat, route |-> "RUTA 5"]]

\* predicted_df, deviation = classify_route_variant(...): unpacking works
\* on a (row, total) pair; a lone row unpacks into its Branch value and its
\* geometry, and None does not unpack
unpack(result) ==
    CASE result.kind = "pair" -> [status |-> "ok", divisible |-> TRUE]
      [] result.kind = "row" -> [status |-> "ok", divisible |-> FALSE]
      [] OTHER -> [status |-> "error", divisible |-> FALSE]

\* deviation / clean_df.shape[0], kept as the fraction <<sum, points>>
mean_deviation(total, npoints) == <<total, npoints>>

NotSaved == [status |-> "notsaved", records |-> << >>]

BatchInit ==
    /\ script \in Scripts
    /\ units \in UNION { [1..n -> UnitTraces] : n \in 1..MaxUnits }
    /\ branches \in BranchFrames
    /\ unit = 1
    /\ clean_df = NotRun
    /\ predicted_df = NoPrediction
    /\ records = << >>
    /\ saved = NotSaved
    /\ bpc = "clean"

BatchIdle ==
    /\ script = "Main"
    /\ units = << >>
    /\ branches = << >>
    /\ unit = 0
    /\ clean_df = NotRun
    /\ predicted_df = NoPrediction
    /\ records = << >>
    /\ saved = NotSaved
    /\ bpc = "idle"

\* Main.py:157-158, deviation_analysis.py:54-57: the unit's trace is denoised;
\* an exception leaves the loop and the script
CleanUnit ==
    /\ bpc = "clean"
    /\ unit <= Len(units)
    /\ clean_df' = clean_unit(units[unit], script)
    /\ bpc' = IF clean_df'.status = "ok" THEN "classify" ELSE "error"
    /\ UNCHANGED <<script, units, branches, unit, predicted_df, records, saved>>
    /\ UNCHANGED <<denoiseVars, classifyVars, connVars, stitchVars, poolVars, namesVars>>

\* Main.py:159, deviation_analysis.py:60: the denoised trace is classified and,
\* in deviation_analysis.py, the result is unpacked
ClassifyUnit ==
    /\ bpc = "classify"
    /\ predicted_df' = classify_route_variant(classified_rows(clean_df.rows), branches,
                                              imported(script))
    /\ bpc' = IF script = "Main" \/ unpack(predicted_df').status = "ok"
              THEN "record" ELSE "error"
    /\ UNCHANGED <<script, units, branches, unit, clean_df, records, saved>>
    /\ UNCHANGED <<denoiseVars, classifyVars, connVars, stitchVars, poolVars, namesVars>>

\* Main.py:160: records[plate][day] = predicted_gdf["branch"];
\* deviation_analysis.py:63-66: the mean deviation is computed and the entry
\* appended
RecordUnit ==
    /\ bpc = "record"
    /\ IF script = "Main"
       THEN /\ records' = Append(records, [unit |-> unit,
                                           Predicted_Branch |-> predicted_df.index,
                                           Deviation |-> << >>])
            /\ unit' = unit + 1
            /\ bpc' = "clean"
       ELSE IF unpack(predicted_df).divisible
            THEN /\ records' = Append(records,
                                  [unit |-> unit,
                                   Predicted_Branch |-> predicted_df.index,
                                   Deviation |-> mean_deviation(predicted_df.total,
                                                                Len(clean_df.rows))])
                 /\ unit' = unit + 1
                 /\ bpc' = "clean"
            ELSE /\ bpc' = "error"
                 /\ UNCHANGED <<records, unit>>
    /\ UNCHANGED <<script, units, branches, clean_df, predicted_df, saved>>
    /\ UNCHANGED <<denoiseVars, classifyVars, connVars, stitchVars, poolVars, namesVars>>

\* after the loop: return records (Main.py:161) / to_csv (deviation_analysis.py:69-72)
FinishBatch ==
    /\ bpc = "clean"
    /\ unit > Len(units)
    /\ saved' = [status |-> "saved", records |-> records]
    /\ bpc' = "done"
    /\ UNCHANGED <<script, units, branches, unit, clean_df, predicted_df, records>>
    /\ UNCHANGED <<denoiseVars, classifyVars, connVars, stitchVars, poolVars, namesVars>>

BatchNext == CleanUnit \/ ClassifyUnit \/ RecordUnit \/ FinishBatch

-----------------------------------------------------------------------------
(***************************************************************************)
(* Parallel per-plate batch (streetNames.py)                               *)
(*                                                                         *)
(* The main thread submits process_plate once per plate to a               *)
(* ThreadPoolExecutor, then takes the futures in completion order and      *)
(* appends each result.  A worker thread takes the oldest queued item.     *)
(* future.result() re-raises what process_plate raised; leaving the with   *)
(* block waits for every submitted item.                                   *)
(***************************************************************************)
\* Most plates in one batch.
MaxPlates == 5

\* a pool without a limit on its worker threads
unbounded_workers == MaxPlates + 1

\* ThreadPoolExecutor(max_workers=4)
max_workers == 4

PlateIds == 1..MaxPlates

Queued == { f \in 1..plates : futures[f] = "queued" }

Running == { f \in 1..plates : futures[f] = "running" }

Finished == { f \in 1..plates : futures[f] \in {"result", "exception"} }

PoolInit ==
    /\ plates \in 1..MaxPlates
    /\ futures = [f \in PlateIds |-> "none"]
    /\ runs = [f \in PlateIds |-> 0]
    /\ yielded = {}
    /\ all_streets = << >>
    /\ ppc = "submit"

PoolIdle ==
    /\ plates = 0
    /\ futures = << >>
    /\ runs = << >>
    /\ yielded = {}
    /\ all_streets = << >>
    /\ ppc = "idle"

\* executor.submit(process_plate, plate) for the next plate of the comprehension
Submit ==
    /\ ppc = "submit"
    /\ \E f \in 1..plates :
          /\ futures[f] = "none"
          /\ \A g \in 1..(f - 1) : futures[g] # "none"
          /\ futures' = [futures EXCEPT ![f] = "queued"]
          /\ ppc' = IF f = plates THEN "collect" ELSE "submit"
    /\ UNCHANGED <<plates, runs, yielded, all_streets>>
    /\ UNCHANGED <<denoiseVars, classifyVars, connVars, stitchVars, batchVars, namesVars>>

\* a worker thread takes the oldest queued item and starts process_plate
StartPlate ==
    /\ Cardinality(Running) < max_workers
    /\ \E f \in Queued :
          /\ \A g \in Queued : f <= g
          /\ futures' = [futures EXCEPT ![f] = "running"]
          /\ runs' = [runs EXCEPT ![f] = runs[f] + 1]
    /\ UNCHANGED <<plates, yielded, all_streets, ppc>>
    /\ UNCHANGED <<denoiseVars, classifyVars, connVars, stitchVars, batchVars, namesVars>>

\* process_plate returns its frame or raises
process_plate ==
    /\ \E f \in Running : \E outcome \in {"result", "exception"} :
          futures' = [futures EXCEPT ![f] = outcome]
    /\ UNCHANGED <<plates, runs, yielded, all_streets, ppc>>
    /\ UNCHANGED <<denoiseVars, classifyVars, connVars, stitchVars, batchVars, namesVars>>

\* for future in as_completed(futures): all_streets.append(future.result())
Collect ==
    /\ ppc = "collect"
    /\ \E f \in Finished \ yielded :
          /\ yielded' = yielded \cup {f}
          /\ IF futures[f] = "result"
             THEN /\ all_streets' = Append(all_streets, f)
                  /\ ppc' = IF yielded' = 1..plates THEN "shutdown" ELSE "collect"
             ELSE /\ ppc' = "raising"
                  /\ UNCHANGED all_streets
    /\ UNCHANGED <<plates, futures, runs>>
    /\ UNCHANGED <<denoiseVars, classifyVars, connVars, stitchVars, batchVars, namesVars>>

\* leaving the with block: executor.shutdown(wait=True), then the script goes
\* on to pd.concat(all_streets) or ends with the exception
Shutdown ==
    /\ ppc \in {"shutdown", "raising"}
    /\ Queued = {}
    /\ Running = {}
    /\ ppc' = IF ppc = "shutdown" THEN "done" ELSE "error"
    /\ UNCHANGED <<plates, futures, runs, yielded, all_streets>>
    /\ UNCHANGED <<denoiseVars, classifyVars, connVars, stitchVars, batchVars, namesVars>>

PoolNext == Submit \/ StartPlate \/ process_plate \/ Collect \/ Shutdown

-----------------------------------------------------------------------------
(***************************************************************************)
(* Name extraction and Name Resolver                                       *)
(* (ListaCrudaNombres.py, PosiblesNombres.py)                              *)
(*                                                                         *)
(* lista_calles holds the street fragments of one leg as the split of      *)
(* extraer_nombres leaves them (lower case, without accents, the direction *)
(* words between them left out).  Names are sequences of characters.  The  *)
(* gazetteers are such that at most one entry shares a term with a token:  *)
(* the cosine similarity is positive for that entry alone, and when no     *)
(* entry shares a term every similarity is 0 and argmax is the first.      *)
(***************************************************************************)
MaxSegments == 3

\* \w of a regular expression, on the characters the names use
IsWordChar(c) == c \notin {" ", "\"", "(", ")", ".", ","}

\* where \b abbr \b matches in text: abbr begins and ends with a word
\* character, so it matches where it stands between non-word characters or
\* the ends of the text (no abbreviation of the lists can overlap itself)
WordMatches(text, abbr, ignorecase) ==
    { p \in 1..(Len(text) - Len(abbr) + 1) :
        /\ (p = 1 \/ ~IsWordChar(text[p - 1]))
        /\ (IF ignorecase THEN str_lower(SubSeq(text, p, p + Len(abbr) - 1))
                          ELSE SubSeq(text, p, p + Len(abbr) - 1)) = abbr
        /\ (p + Len(abbr) > Len(text) \/ ~IsWordChar(text[p + Len(abbr)])) }

\* re.sub(r'\b' + abbr + r'\b', replacement, text), IGNORECASE when ignorecase
re_sub_word(text, abbr, replacement, ignorecase) ==
    Flatten([i \in 1..Len(text) |->
                IF i \in WordMatches(text, abbr, ignorecase) THEN replacement
                ELSE IF \E p \in WordMatches(text, abbr, ignorecase) :
                            p < i /\ i < p + Len(abbr)
                     THEN << >>
                     ELSE <<text[i]>>])

RECURSIVE SubEach(_, _, _)
\* the substitutions of pairs, one after the other
SubEach(text, pairs, ignorecase) ==
    IF Len(text) = 0 \/ Len(pairs) = 0 THEN text
    ELSE IF Len(pairs) = 1
         THEN re_sub_word(text, pairs[1][1], pairs[1][2], ignorecase)
         ELSE SubEach(SubEach(text, SubSeq(pairs, 1, Len(pairs) \div 2), ignorecase),
                      SubSeq(pairs, Len(pairs) \div 2 + 1, Len(pairs)), ignorecase)

\* ListaCrudaNombres.py, extraer_nombres: the abbreviations and what they stand for
replacements ==
    << <<<<"a", "v">>, <<"a", "v", "e", "n", "i", "d", "a">>>>,
       <<<<"a">>, <<"a", "v", "e", "n", "i", "d", "a">>>>,
       <<<<"m", "a">>, <<"m", "a", "r", "i", "a">>>>,
       <<<<"m">>, <<"m", "a", "r", "i", "a">>>>,
       <<<<"l", "i", "c">>, <<"l", "i", "c", "e", "n", "c", "i", "a", "d", "o">>>>,
       <<<<"c", "a", "l", "z">>, <<"c", "a", "l", "z", "a", "d", "a">>>>,
       <<<<"g", "r", "a", "l">>, <<"g", "e", "n", "e", "r", "a", "l">>>>,
       <<<<"p", "r", "o", "l">>, <<"p", "r", "o", "l", "o", "n", "g", "a", "c", "i", "o", "n">>>>,
       <<<<"i", "n", "g">>, <<"i", "n", "g", "e", "n", "i", "e", "r", "o">>>>,
       <<<<"a", "r", "q">>, <<"a", "r", "q", "u", "i", "t", "e", "c", "t", "o">>>>,
       <<<<"c", "d", "a">>, <<"c", "e", "r", "r", "a", "d", "a">>>>,
       <<<<"c", "a", "r", "r">>, <<"c", "a", "r", "r", "e", "t", "e", "r", "a">>>>,
       <<<<"g", "o", "b">>, <<"g", "o", "b", "e", "r", "n", "a", "d", "o", "r">>>>,
       <<<<"d", "i", "a", "g", "o", "n", "a", "l">>, << >> >>,
       <<<<"l", "a", "t", "e", "r", "a", "l", " ", "d", "e">>, << >> >>,
       <<<<"d", "r">>, <<"d", "o", "c", "t", "o", "r">>>>,
       <<<<"i", "g", "n">>, <<"i", "g", "n", "a", "c", "i", "o">>>>,
       <<<<"b", "l", "v", "d">>, <<"b", "o", "u", "l", "e", "v", "a", "r", "d">>>> >>

\* replace_abbreviations(text, replacements)
replace_abbreviations(text) == SubEach(text, replacements, TRUE)

Retorno == <<"r", "e", "t", "o", "r", "n", "o">>

RetornoMarker == <<"R", "E", "T", "O", "R", "N", "O">>

VueltaEnU == <<"V", "U", "E", "L", "T", "A", " ", "E", "N", " ", "U">>

Glorieta == <<"g", "l", "o", "r", "i", "e", "t", "a">>

Incorporacion == <<"i", "n", "c", "o", "r", "p", "o", "r", "a", "c", "i", "o", "n">>

\* the three spellings of a quoted u that extraer_nombres looks for
QuotedU == { <<"\"", "u", "\"">>, <<"\"", "u">>, <<"u", "\"">> }

RECURSIVE WordEnd(_, _)
\* index of the last character of the run of word characters that starts at i
WordEnd(text, i) ==
    IF i < Len(text) /\ IsWordChar(text[i + 1]) THEN WordEnd(text, i + 1) ELSE i

RECURSIVE SpaceEnd(_, _)
\* index of the last character of the run of spaces after position i
SpaceEnd(text, i) ==
    IF i < Len(text) /\ text[i + 1] = " " THEN SpaceEnd(text, i + 1) ELSE i

\* positions where ^(\b\w+\b\s*)*\bincorporacion\b\s*\b\w+\b\s* can take its
\* "incorporacion": whole words before it, a space and a word after it
IncorporacionAt(text) ==
    { p \in 1..(Len(text) - Len(Incorporacion)) :
        /\ SubSeq(text, p, p + Len(Incorporacion) - 1) = Incorporacion
        /\ (p = 1 \/ text[p - 1] = " ")
        /\ \A k \in 1..(p - 1) : IsWordChar(text[k]) \/ text[k] = " "
        /\ text[p + Len(Incorporacion)] = " "
        /\ LET q == SpaceEnd(text, p + Len(Incorporacion) - 1) + 1
           IN  q <= Len(text) /\ IsWordChar(text[q]) }

\* pattern_incorporacion.sub('', calle): the greedy match ends at the last
\* "incorporacion" that fits, the word after it and the spaces after that
pattern_incorporacion(text) ==
    IF IncorporacionAt(text) = {} THEN text
    ELSE LET p == CHOOSE x \in IncorporacionAt(text) : \A y \in IncorporacionAt(text) : y <= x
             q == SpaceEnd(text, p + Len(Incorporacion) - 1) + 1
             e == SpaceEnd(text, WordEnd(text, q))
         IN  SubSeq(text, e + 1, Len(text))

\* re.sub(r"\([^)]*\)", "", calle): a character goes when a ")" follows it
\* or is it, and a "(" is it or precedes it with no ")" in between
remove_parenthesised(text) ==
    Flatten([i \in 1..Len(text) |->
                IF /\ \E q \in i..Len(text) : text[q] = ")"
                   /\ \E p \in 1..i : /\ text[p] = "("
                                      /\ \A k \in p..(i - 1) : text[k] # ")"
                THEN << >>
                ELSE <<text[i]>>])

KeepWordOrSpace(c) == IsWordChar(c) \/ c = " "

\* re.sub(r'[^\w\s]', '', calle)
remove_punctuation(text) == SelectSeq(text, KeepWordOrSpace)

\* lines 89-106: what the loop appends to calles for one fragment
limpieza_cruda(fragment) ==
    LET calle == str_strip(fragment)
        marked == IF str_in(Retorno, calle) THEN RetornoMarker
                  ELSE IF \E u \in QuotedU : str_in(u, calle) THEN VueltaEnU
                  ELSE IF str_in(Incorporacion, calle) THEN pattern_incorporacion(calle)
                  ELSE calle
    IN  str_strip(remove_punctuation(remove_parenthesised(replace_abbreviations(marked))))

RECURSIVE remove_consecutive_duplicates(_)
remove_consecutive_duplicates(street_names) ==
    IF Len(street_names) <= 1 THEN street_names
    ELSE LET rest == remove_consecutive_duplicates(
                         SubSeq(street_names, 1, Len(street_names) - 1))
         IN  IF street_names[Len(street_names)] = street_names[Len(street_names) - 1]
             THEN rest
             ELSE Append(rest, street_names[Len(street_names)])

\* extraer_nombres from the split on: remove_consecutive_duplicates(calles[:-1])
extraer_nombres(fragments) ==
    LET calles == [i \in 1..Len(fragments) |-> limpieza_cruda(fragments[i])]
    IN  remove_consecutive_duplicates(SubSeq(calles, 1, Len(calles) - 1))

\* PosiblesNombres.py, crear_conjunto_posibles_nombres
skips == << VueltaEnU, RetornoMarker, <<"G", "L", "O", "R", "I", "E", "T", "A">> >>

Base == <<"b", "a", "s", "e">>

prefix_replacements ==
    << <<<<"c", "e", "r", "r", "a", "d", "a">>, << >> >>,
       <<<<"p", "r", "o", "l", "o", "n", "g", "a", "c", "i", "o", "n">>, << >> >>,
       <<<<"c", "a", "r", "r", "e", "t", "e", "r", "a">>, << >> >>,
       <<<<"a", "v", "e", "n", "i", "d", "a">>, << >> >>,
       <<<<"c", "a", "l", "z", "a", "d", "a">>, << >> >>,
       <<<<"c", "a", "l", "l", "e">>, << >> >> >>

name_prefixes ==
    << <<"c", "e", "r", "r", "a", "d", "a">>, <<"c", "a", "l", "z", "a", "d", "a">>, <<"a", "v", "e", "n", "i", "d", "a">>, <<"c", "a", "l", "l", "e">>, <<"p", "r", "o", "l", "o", "n", "g", "a", "c", "i", "o", "n">> >>

\* reemplaza_abreviaciones(text, replacements): case-sensitive
reemplaza_abreviaciones(text) == SubEach(text, prefix_replacements, FALSE)

\* unidecode on one character
UnidecodeChar(c) ==
    CASE c = "á" -> "a"
      [] c = "é" -> "e"
      [] c = "í" -> "i"
      [] c = "ó" -> "o"
      [] c = "ú" -> "u"
      [] c = "ñ" -> "n"
      [] OTHER -> c

unidecode(text) == [i \in 1..Len(text) |-> UnidecodeChar(text[i])]

RECURSIVE str_split(_)
\* str.split(): the words between runs of spaces
str_split(text) ==
    LET t == lstrip(text)
    IN  IF t = << >> THEN << >>
        ELSE LET e == IF \E k \in 1..Len(t) : t[k] = " "
                      THEN (CHOOSE k \in 1..Len(t) :
                                t[k] = " " /\ \A y \in 1..(k - 1) : t[y] # " ") - 1
                      ELSE Len(t)
             IN  <<SubSeq(t, 1, e)>> \o str_split(SubSeq(t, e + 1, Len(t)))

Max2(a, b) == IF a >= b THEN a ELSE b

RECURSIVE LcsRow(_, _, _, _)
\* one row of the longest-common-subsequence table: new[j + 1] is the length
\* for the characters of a read so far, the last of them c, and b[1..j]
LcsRow(c, b, row, new) ==
    IF Len(new) = Len(b) + 1 THEN new
    ELSE LcsRow(c, b, row,
                Append(new, IF b[Len(new)] = c THEN row[Len(new)] + 1
                            ELSE Max2(new[Len(new)], row[Len(new) + 1])))

RECURSIVE Lcs(_, _, _)
\* the last entry of the table's last row; row is the row for the characters
\* read before a
Lcs(a, b, row) ==
    IF Len(row) = 0 \/ a = << >> THEN row[Len(row)]
    ELSE Lcs(Tail(a), b, LcsRow(Head(a), b, row, <<0>>))

\* the distance lev.ratio is built on: insertions and deletions cost 1,
\* a substitution costs 2
indel_distance(a, b) == Len(a) + Len(b) - 2 * Lcs(a, b, [j \in 1..(Len(b) + 1) |-> 0])

\* lev.ratio(phrase1, phrase2) >= 0.95, with
\* ratio = (len1 + len2 - distance) / (len1 + len2); two different phrases
\* are at distance 1 or more, which passes only from 20 characters on
checar_similitud(phrase1, phrase2) ==
    LET p1 == str_lower(phrase1)
        p2 == str_lower(phrase2)
    IN  \/ p1 = p2
        \/ /\ Len(p1) + Len(p2) >= 20
           /\ 20 * indel_distance(p1, p2) <= Len(p1) + Len(p2)

\* the terms TfidfVectorizer takes from a text: lower-cased words of two or
\* more characters
Terms(text) ==
    LET words == str_split(remove_punctuation(str_lower(text)))
    IN  { words[i] : i \in { k \in 1..Len(words) : Len(words[k]) >= 2 } }

\* encontrar_nombre_similar(target, string_list): the entry of largest cosine
\* similarity, the first one when several are largest
encontrar_nombre_similar(target, string_list) ==
    LET sharing == { i \in 1..Len(string_list) :
                       Terms(target) \cap Terms(string_list[i]) # {} }
    IN  IF sharing = {} THEN string_list[1]
        ELSE string_list[CHOOSE i \in sharing : \A k \in sharing : i <= k]

\* lines 95-97: the token is passed over
skipped(calle) == (\E i \in 1..Len(skips) : skips[i] = calle) \/ str_in(Base, calle)

\* lines 99-108: the names that are compared with the gazetteer
nombres_a_checar(calle, streets) ==
    LET nombre_base == str_strip(reemplaza_abreviaciones(calle))
    IN  { name_prefixes[i] \o <<" ">> \o nombre_base : i \in 1..Len(name_prefixes) }
          \cup (IF Len(str_split(calle)) > 1 THEN {calle} ELSE {})
          \cup (IF Len(str_split(nombre_base)) > 1 THEN {nombre_base} ELSE {})
          \cup { str_strip(str_lower(encontrar_nombre_similar(calle, streets))) }

\* lines 110-113: the gazetteer entries one of the names matches
posibles_nombres(calle, streets) ==
    IF skipped(calle) THEN {}
    ELSE { streets[s] : s \in
             { k \in 1..Len(streets) :
                 \E pos \in nombres_a_checar(calle, streets) :
                     \/ checar_similitud(unidecode(pos), unidecode(streets[k]))
                     \/ str_in(unidecode(pos), unidecode(streets[k])) } }

\* the street fragments a leg's text is split into
Fragments ==
    { <<"r", "e", "t", "o", "r", "n", "o", " ", "e", "j", "e">>,
      <<"\"", "u", "\"">>,
      <<"g", "l", "o", "r", "i", "e", "t", "a">>,
      <<"g", "l", "o", "r", "i", "e", "t", "a", " ">>,
      <<"a", "v", " ", "s", "u", "r">>,
      <<"e", "j", "e">>,
      <<"b", "a", "s", "e", " ", "s", "u", "r">>,
      <<"i", "n", "c", "o", "r", "p", "o", "r", "a", "c", "i", "o", "n", " ", "a", " ", "e", "j", "e">> }

\* gazetteers, as leer_nombres_calles_osm reads them (lower case, stripped)
Gazetteers ==
    { << <<"e", "j", "e">>, <<"a", "v", "e", "n", "i", "d", "a", " ", "s", "u", "r">> >>,
      << <<"c", "a", "l", "l", "e", " ", "g", "l", "o", "r", "i", "e", "t", "a">>, <<"e", "j", "e">> >>,
      << <<"a", "v", "e", "n", "i", "d", "a", " ", "s", "u", "r">> >> }

NamesInit ==
    /\ \E n \in 1..MaxSegments : lista_calles \in [1..n -> Fragments]
    /\ street_list \in Gazetteers
    /\ lista_cruda = << >>
    /\ nombres_calles = << >>
    /\ compared = {}
    /\ npc = "extract"

NamesIdle ==
    /\ lista_calles = << >>
    /\ street_list = << >>
    /\ lista_cruda = << >>
    /\ nombres_calles = << >>
    /\ compared = {}
    /\ npc = "idle"

\* extraer_nombres(text), from the split on
ExtractNames ==
    /\ npc = "extract"
    /\ lista_cruda' = extraer_nombres(lista_calles)
    /\ npc' = IF lista_cruda' = << >> THEN "done" ELSE "resolve"
    /\ UNCHANGED <<lista_calles, street_list, nombres_calles, compared>>
    /\ UNCHANGED <<denoiseVars, classifyVars, connVars, stitchVars, batchVars, poolVars>>

\* one iteration of the loop of crear_conjunto_posibles_nombres
ResolveName ==
    /\ npc = "resolve"
    /\ LET i == Len(nombres_calles) + 1
       IN  /\ nombres_calles' =
                  Append(nombres_calles, posibles_nombres(lista_cruda[i], street_list))
           /\ compared' = IF skipped(lista_cruda[i]) THEN compared ELSE compared \cup {i}
           /\ npc' = IF i = Len(lista_cruda) THEN "done" ELSE "resolve"
    /\ UNCHANGED <<lista_calles, street_list, lista_cruda>>
    /\ UNCHANGED <<denoiseVars, classifyVars, connVars, stitchVars, batchVars, poolVars>>

NamesNext == ExtractNames \/ ResolveName

-----------------------------------------------------------------------------
(***************************************************************************)
(* Specifications                                                          *)
(***************************************************************************)
InitDenoise == DenoiseInit /\ ClassifyIdle /\ ConnIdle /\ StitchIdle /\ BatchIdle /\ PoolIdle /\ NamesIdle

SpecDenoise == InitDenoise /\ [][DenoiseNext]_vars

InitClassify == ClassifyInit /\ DenoiseIdle /\ ConnIdle /\ StitchIdle /\ BatchIdle /\ PoolIdle /\ NamesIdle

SpecClassify == InitClassify /\ [][ClassifyNext]_vars

InitConn == ConnInit /\ DenoiseIdle /\ ClassifyIdle /\ StitchIdle /\ BatchIdle /\ PoolIdle /\ NamesIdle

SpecConn == InitConn /\ [][ConnNext]_vars

InitStitch == StitchInit /\ DenoiseIdle /\ ClassifyIdle /\ ConnIdle /\ BatchIdle /\ PoolIdle /\ NamesIdle

SpecStitch == InitStitch /\ [][StitchNext]_vars

InitBatch == BatchInit /\ DenoiseIdle /\ ClassifyIdle /\ ConnIdle /\ StitchIdle /\ PoolIdle /\ NamesIdle

SpecBatch == InitBatch /\ [][BatchNext]_vars

InitPool ==
    PoolInit /\ DenoiseIdle /\ ClassifyIdle /\ ConnIdle /\ StitchIdle /\ BatchIdle /\ NamesIdle

SpecPool == InitPool /\ [][PoolNext]_vars

InitNames ==
    NamesInit /\ DenoiseIdle /\ ClassifyIdle /\ ConnIdle /\ StitchIdle /\ BatchIdle /\ PoolIdle

SpecNames == InitNames /\ [][NamesNext]_vars

-----------------------
(***************************************************************************)
(* Trace Denoiser: properties                                              *)
(***************************************************************************)
\* the rows are in non-decreasing time order (a GpsTrace as section 3 defines it)
TimeOrdered(rows) == \A i \in 1..(Len(rows) - 1) : rows[i].time <= rows[i + 1].time

\* C1: for every trace with at least 2 points, and every precision, window
\* and lookahead >= 1, clean_gps_data returns a trace with no more points
\* than its input.
C1_OutputNoLongerThanInput ==
    (dpc # "raw" /\ Len(gdf) >= 2) =>
        /\ closest_gdf.status = "ok"
        /\ Len(closest_gdf.rows) <= Len(gdf)

\* What remains of C1 when the feed is in time order: the windows of Stage A
\* are then disjoint and the bound holds.
C1_HoldsOnTimeOrderedTraces ==
    (dpc # "raw" /\ Len(gdf) >= 2 /\ TimeOrdered(gdf)) =>
        /\ closest_gdf.status = "ok"
        /\ Len(closest_gdf.rows) <= Len(gdf)

\* C2: the denoiser is idempotent: clean_gps_data applied to its own output,
\* with the same (precision, window, lookahead), returns exactly that output
\* (same points, same order, same weights).  Stated here for the traces
\* section 4.5 admits (time-ordered ones), which is all the refutation needs.
C2_Idempotent ==
    (dpc = "recleaned" /\ TimeOrdered(gdf)) => second_gdf = closest_gdf

-----------------------------------------------------------------------------
\* The Stage A windows of the trace at hand.
StageAWindows == interval_windows(reset_index(gdf), 0, time_diff_threshold)

\* What Stage A is to make of one window: per group of rows sharing a rounded
\* coordinate, the row of least index, its weight multiplied by the group's size.
EarliestRepresentatives(window, precision) ==
    LET earliest == { i \in 1..Len(window) :
                        \A j \in GroupOf(window, i, precision) : i <= j }
        scaled == [i \in 1..Len(window) |->
                     [window[i] EXCEPT
                        !.scale = window[i].scale * Cardinality(GroupOf(window, i, precision))]]
    IN  [k \in 1..Cardinality(earliest) |->
            scaled[CHOOSE i \in earliest :
                       Cardinality({ j \in earliest : j <= i }) = k]]

\* C18: in every Stage A window, group_points returns one row per group of
\* rows sharing a rounded coordinate: the earliest-index row of the group,
\* with its weight multiplied by the size of the group.
C18_CollapseToEarliestRepresentative ==
    dpc = "cleaned" =>
        \A w \in 1..Len(StageAWindows) :
            group_points(StageAWindows[w], rounding_precision, impl)
                = EarliestRepresentatives(StageAWindows[w], rounding_precision)

\* The copy of Predicciones.py collapses as C18 states.
C18_PrediccionesCollapsesToEarliest ==
    (dpc = "cleaned" /\ impl = "Predicciones") =>
        \A w \in 1..Len(StageAWindows) :
            group_points(StageAWindows[w], rounding_precision, impl)
                = EarliestRepresentatives(StageAWindows[w], rounding_precision)

\* index labels of the rows of a window
Labels(window) == { window[i].idx : i \in 1..Len(window) }

\* The windows of the trace are disjoint, and each starts at the first row
\* no earlier window holds.
WindowsPartition(windows) ==
    /\ \A v, w \in 1..Len(windows) : v # w => Labels(windows[v]) \cap Labels(windows[w]) = {}
    /\ \A w \in 1..Len(windows) :
          LET consumed == UNION { Labels(windows[v]) : v \in 1..(w - 1) }
              fresh == (0..(Len(gdf) - 1)) \ consumed
          IN  /\ fresh # {}
              /\ windows[w][1].idx = CHOOSE x \in fresh : \A y \in fresh : x <= y

\* C19: whatever the order of the timestamps, the Stage A windows of a trace
\* do not overlap: each window starts at the first row that is not yet in a
\* window, and no row is placed in more than one window.
C19_WindowsNeverOverlap ==
    dpc = "cleaned" => WindowsPartition(StageAWindows)

\* On a trace whose timestamps are non-decreasing the windows do not overlap
\* (see C19).
C19_HoldsOnTimeOrderedTraces ==
    (dpc = "cleaned" /\ TimeOrdered(gdf)) => WindowsPartition(StageAWindows)

\* what Stage A returns for the trace
StageAOutput ==
    group_within_intervals(reset_index(gdf), rounding_precision, time_diff_threshold, impl)

RECURSIVE SumScale(_)
\* the sum of the weights of the rows
SumScale(rows) == IF rows = << >> THEN 0 ELSE Head(rows).scale + SumScale(Tail(rows))

\* C28: for a time-ordered trace of n points that all start with the same
\* weight w, the weights of the points group_within_intervals returns sum
\* to n * w
C28_StageAConservesWeight ==
    (dpc = "cleaned" /\ gdf # << >> /\ TimeOrdered(gdf)) =>
        /\ StageAOutput.status = "ok"
        /\ SumScale(StageAOutput.rows) = Len(gdf) * initial_scale

\* C28 witness: a time-ordered trace that Stage A splits into two windows
\* or more and in which it collapses several points into one
C28_Witness ==
    /\ dpc = "cleaned"
    /\ TimeOrdered(gdf)
    /\ Len(StageAWindows) >= 2
    /\ StageAOutput.status = "ok"
    /\ Len(StageAOutput.rows) < Len(gdf)
    /\ \E k \in 1..Len(StageAOutput.rows) : StageAOutput.rows[k].scale > initial_scale

\* The frame clean_gps_data hands to closest_points (empty when Stage A raised).
StageBInput ==
    LET grouped_gdf == group_within_intervals(reset_index(gdf), rounding_precision,
                                              time_diff_threshold, impl)
    IN  IF grouped_gdf.status = "ok" THEN StandardizeScale(grouped_gdf.rows, impl) ELSE << >>

\* The positions closest_points jumps to, in the order it appends them.
Jumps == closer_coords_indexes(StageBInput, 0, closer_threshold)

\* C20: on a non-empty frame and with a lookahead of 1 or more, every jump
\* of closest_points goes to a position strictly greater than the current
\* one and at most lookahead ahead of it; the loop ends at the last position
\* after at most n - 1 jumps, and the result is the rows at the positions
\* selected.
C20_StageBForwardOnly ==
    (dpc = "cleaned" /\ StageBInput # << >>) =>
        LET n == Len(StageBInput)
            sel == <<0>> \o Jumps
        IN  /\ \A k \in 1..(Len(sel) - 1) :
                  sel[k] < sel[k + 1] /\ sel[k + 1] <= sel[k] + closer_threshold
            /\ Len(Jumps) <= n - 1
            /\ sel[Len(sel)] = n - 1
            /\ closest_gdf = Ok([k \in 1..Len(sel) |-> Values(StageBInput)[sel[k] + 1]])

\* C29: for every non-empty frame and lookahead of 1 or more, the output
\* of closest_points begins with the first input point and ends with the
\* last input point, whatever it skips in between
C29_StageBKeepsEndpoints ==
    (dpc = "cleaned" /\ StageBInput # << >>) =>
        LET out == closest_points(StageBInput, closer_threshold)
        IN  /\ out.status = "ok"
            /\ out.rows # << >>
            /\ out.rows[1] = StageBInput[1]
            /\ out.rows[Len(out.rows)] = StageBInput[Len(StageBInput)]
            /\ closest_gdf = Ok(Values(out.rows))

\* C29 witness: closest_points skipped an intermediate point of a frame
\* whose first and last points differ, and returned both of them
C29_Witness ==
    /\ dpc = "cleaned"
    /\ Len(StageBInput) >= 3
    /\ closest_gdf.status = "ok"
    /\ Len(closest_gdf.rows) < Len(StageBInput)
    /\ Values(StageBInput)[1] # Values(StageBInput)[Len(StageBInput)]
    /\ closest_gdf.rows[1] = Values(StageBInput)[1]
    /\ closest_gdf.rows[Len(closest_gdf.rows)] = Values(StageBInput)[Len(StageBInput)]

\* C20 witness: a run with lookahead 2 on a Stage B frame of four rows in
\* which one jump passed over a row and another went to the next row.
C20_Witness ==
    /\ dpc = "cleaned"
    /\ closer_threshold = 2
    /\ Len(StageBInput) = 4
    /\ \E k \in 1..Len(Jumps) : (<<0>> \o Jumps)[k] + 2 = Jumps[k]
    /\ \E k \in 1..Len(Jumps) : (<<0>> \o Jumps)[k] + 1 = Jumps[k]

(***************************************************************************)
(* Variant Classifier: properties                                          *)
(***************************************************************************)
\* C3: for every trace and every non-empty ordered collection of candidate
\* geometries, classify_route_variant returns a candidate whose summed
\* point-to-geometry distance over the trace is least among all candidates,
\* and of several candidates attaining that least sum it returns the first
\* in row order.  (The copies that test the Route column select a variant
\* only for a one-route trace, which is what their callers hand them.)
C3_FirstMinimalVariant ==
    (cpc = "classified" /\ (cimpl = "Predicciones" \/ ~MixedRoutes(clean_gdf))) =>
        /\ predicted.kind \in {"row", "pair"}
        /\ predicted.index \in 1..Len(route_gdf)
        /\ \A j \in 1..Len(route_gdf) :
              SumDistances(route_gdf[predicted.index], clean_gdf)
                  <= SumDistances(route_gdf[j], clean_gdf)
        /\ \A j \in 1..Len(route_gdf) :
              SumDistances(route_gdf[j], clean_gdf)
                  = SumDistances(route_gdf[predicted.index], clean_gdf)
              => predicted.index <= j

\* C3 witness: a classified trace for which two different candidates tie on
\* the least sum, a third is strictly farther, and the first of the tied
\* pair came back.
C3_Witness ==
    /\ cpc = "classified"
    /\ Len(clean_gdf) = 2
    /\ predicted.kind \in {"row", "pair"}
    /\ \E j, k \in 1..Len(route_gdf) :
          /\ j > predicted.index
          /\ route_gdf[j] # route_gdf[predicted.index]
          /\ SumDistances(route_gdf[j], clean_gdf)
                = SumDistances(route_gdf[predicted.index], clean_gdf)
          /\ SumDistances(route_gdf[k], clean_gdf)
                > SumDistances(route_gdf[predicted.index], clean_gdf)

-----------------------------------------------------------------------------
(***************************************************************************)
(* Connection Finder: properties                                           *)
(***************************************************************************)
\* the nodes incident to an edge that carries the street name (N_a, N_b)
IncidentNodes(street) ==
    { n \in 1..Len(NodePos) :
        \E k \in 1..Len(street_graph) :
            /\ n \in {street_graph[k].u, street_graph[k].v}
            /\ \E i \in 1..Len(street_graph[k].name) :
                  lower(street_graph[k].name[i]) = street }

\* the node ids of the connection points returned for the pair
EmittedNodes == { intersecciones[i][1] : i \in 1..Len(intersecciones) }

\* C4: for two distinct street names whose incident node sets share a node,
\* checar_conexion_distancia returns exactly the shared nodes, each tagged
\* with the two names, and the geodesic near-miss search does not run, so no
\* non-shared node is emitted for the pair.
C4_DirectIntersectionDominates ==
    (/\ connpc = "checked"
     /\ street1 # street2
     /\ IncidentNodes(street1) \cap IncidentNodes(street2) # {}) =>
        /\ EmittedNodes = IncidentNodes(street1) \cap IncidentNodes(street2)
        /\ \A i \in 1..Len(intersecciones) :
              intersecciones[i] = <<intersecciones[i][1], street1, street2>>
        /\ Len(intersecciones) = Cardinality(EmittedNodes)
        /\ ~searched

\* C4 witness: two distinct streets share a node although another pair of
\* their nodes, not shared, lies within the near-miss threshold.
C4_Witness ==
    /\ connpc = "checked"
    /\ street1 # street2
    /\ IncidentNodes(street1) \cap IncidentNodes(street2) # {}
    /\ intersecciones # << >>
    /\ \E a \in IncidentNodes(street1) \ IncidentNodes(street2) :
          \E b \in IncidentNodes(street2) \ IncidentNodes(street1) :
              geodesic(a, b) <= umbral

\* C5: the connection search for a pair (s, s) emits no connection point,
\* neither as a direct intersection nor as a near miss.
C5_NoSelfConnection ==
    (connpc = "checked" /\ street1 = street2) => intersecciones = << >>

\* C5 witness: the pair (s, s) was searched for a street that has nodes in
\* the graph, two of them within the near-miss threshold.
C5_Witness ==
    /\ connpc = "checked"
    /\ street1 = street2
    /\ \E a, b \in IncidentNodes(street1) : a # b /\ geodesic(a, b) <= umbral
    /\ intersecciones = << >>

\* the distinct geodesic distances over the node pairs of N_a x N_b
PairDistanceSet(a, b) ==
    { geodesic(n1, n2) : n1 \in IncidentNodes(a), n2 \in IncidentNodes(b) }

\* the two smallest of a set of at least two distances
TwoSmallest(ds) ==
    LET lo == CHOOSE x \in ds : \A y \in ds : x <= y
        rest == ds \ {lo}
    IN  {lo, CHOOSE x \in rest : \A y \in rest : x <= y}

\* the nodes of the node pairs of N_a x N_b that lie at one of the distances
NodesAt(a, b, ds) ==
    { n \in IncidentNodes(a) \cup IncidentNodes(b) :
        \E n1 \in IncidentNodes(a), n2 \in IncidentNodes(b) :
            n \in {n1, n2} /\ geodesic(n1, n2) \in ds }

\* two distinct names without a shared node, whose node pairs lie at two or
\* more distinct distances
NearMissCase ==
    /\ connpc = "checked"
    /\ street1 # street2
    /\ IncidentNodes(street1) \cap IncidentNodes(street2) = {}
    /\ Cardinality(PairDistanceSet(street1, street2)) >= 2

\* C21: for two distinct names with no shared node the nodes achieving the
\* two smallest distinct distances over N_a x N_b are emitted if and only if
\* both distances are at most 350 m; otherwise nothing is emitted.
C21_NearMissNeedsBothWithinThreshold ==
    NearMissCase =>
        LET small == TwoSmallest(PairDistanceSet(street1, street2))
        IN  EmittedNodes = IF \A d \in small : d <= umbral
                           THEN NodesAt(street1, street2, small)
                           ELSE {}

\* What the code emits in the case of C21: of the nodes achieving the two
\* smallest distances, those whose own distance is at most 350 m.
C21_EmitsPerDistance ==
    NearMissCase =>
        LET small == TwoSmallest(PairDistanceSet(street1, street2))
        IN  EmittedNodes = NodesAt(street1, street2, { d \in small : d <= umbral })

\* position of the first punto of points with node id n
FirstSeen(points, n) == CHOOSE k \in 1..Len(points) :
                            /\ points[k][1] = n
                            /\ \A m \in 1..(k - 1) : points[m][1] # n

\* out holds every node id of points exactly once, in first-seen order
OnceInFirstSeenOrder(out, points) ==
    /\ \A a, b \in 1..Len(out) : a < b =>
          /\ out[a][1] # out[b][1]
          /\ FirstSeen(points, out[a][1]) < FirstSeen(points, out[b][1])
    /\ { out[a][1] : a \in 1..Len(out) } = { points[k][1] : k \in 1..Len(points) }

\* every emitted punto is one its own boundary's searches returned, and no
\* earlier boundary's searches returned its node
EmittedWhereFirstSeen(lists, raw) ==
    /\ Len(lists) = Len(raw)
    /\ \A i \in 1..Len(lists) : \A k \in 1..Len(lists[i]) :
          /\ \E m \in 1..Len(raw[i]) : raw[i][m] = lists[i][k]
          /\ \A j \in 1..(i - 1) : \A m \in 1..Len(raw[j]) :
                raw[j][m][1] # lists[i][k][1]

\* C22: within one leg a node id is emitted at most once across all token
\* boundaries -- every node the searches returned is emitted exactly once,
\* in the boundary where it was first seen and in first-seen order
C22_NodeEmittedOncePerLeg ==
    connpc = "generated" =>
        /\ Len(conexiones_totales) = Len(calles_leg) - 1
        /\ OnceInFirstSeenOrder(Flatten(conexiones_totales),
                                Flatten(leg_points(calles_leg, street_graph)))
        /\ EmittedWhereFirstSeen(conexiones_totales,
                                 leg_points(calles_leg, street_graph))

\* a leg where a node found at the first boundary is found again at the
\* second, and the second boundary still emits another node
C22_Witness ==
    /\ connpc = "generated"
    /\ Len(calles_leg) = 3
    /\ conexiones_totales[1] # << >>
    /\ conexiones_totales[2] # << >>
    /\ Len(Flatten(conexiones_totales)) < Len(Flatten(leg_points(calles_leg, street_graph)))
    /\ \E m \in 1..Len(conexiones_totales[1]) :
          \E k \in 1..Len(boundary_points(calles_leg[2], calles_leg[3], street_graph)) :
              boundary_points(calles_leg[2], calles_leg[3], street_graph)[k][1]
                  = conexiones_totales[1][m][1]

\* the node ids of a connection list
AnchorNodes(nodes) == { nodes[i][1] : i \in 1..Len(nodes) }

\* the nodes on a path
OnPath(path) == { path[i] : i \in 1..Len(path) }

\* the paths in a list of paths
PathsIn(list) == { list[i] : i \in 1..Len(list) }

\* Of the connection nodes of the boundary (nodes1, nodes2), exactly two lie on
\* the path: its first node, an anchor of nodes1, and its last, one of nodes2.
PassesAnchorCheck(nodes1, nodes2, path) ==
    /\ path[1] \in AnchorNodes(nodes1)
    /\ Last(path) \in AnchorNodes(nodes2)
    /\ path[1] # Last(path)
    /\ (AnchorNodes(nodes1) \cup AnchorNodes(nodes2)) \cap OnPath(path)
          = {path[1], Last(path)}

\* the name check with "at least one label": every edge route[j] -> route[j+1]
\* the code walks either carries no name or has a label compatible with n1[2]
SomeLabelCompatible(route, n1) ==
    \A j \in 2..(Len(route) - 1) :
        LET edge_names == EdgeOf(route[j], route[j + 1]).name
        IN  \/ edge_names = << >>
            \/ \E i \in 1..Len(edge_names) : compatible(edge_names[i], n1[3])

\* the shortest paths of the boundary (nodes1, nodes2) that pass the anchor
\* check and the name check `check`
KeptPaths(nodes1, nodes2, check(_, _)) ==
    { shortest_path(nodes1[i][1], nodes2[j][1]) :
        <<i, j>> \in { p \in (1..Len(nodes1)) \X (1..Len(nodes2)) :
            /\ geodesic_m(nodes1[p[1]][1], nodes2[p[2]][1]) < 10000
            /\ shortest_path(nodes1[p[1]][1], nodes2[p[2]][1]) # << >>
            /\ count(set_way(nodes1, nodes2),
                     shortest_path(nodes1[p[1]][1], nodes2[p[2]][1])) = 2
            /\ check(shortest_path(nodes1[p[1]][1], nodes2[p[2]][1]), nodes1[p[1]]) } }

\* C23: a shortest path between anchors is a candidate of its boundary if
\* and only if it passes the anchor check and every internal edge has at least
\* one name label compatible with the anchor street's name
C23_KeptIffSomeLabelCompatible ==
    spc = "reduce" =>
        \A k \in 1..Len(routesFinal) :
            PathsIn(routesFinal[k]) = KeptPaths(Way[k], Way[k + 1], SomeLabelCompatible)

\* what holds instead: the path is kept if and only if it passes the anchor
\* check and every label of every internal edge is compatible
C23_KeptIffEveryLabelCompatible ==
    spc = "reduce" =>
        \A k \in 1..Len(routesFinal) :
            PathsIn(routesFinal[k]) = KeptPaths(Way[k], Way[k + 1], con_street)

\* an iteration of the reduction loop appends a gap segment
GapInserted == spc = "reduce" /\ totalRouteGap' # totalRouteGap

\* C24: a gap segment is inserted only if the geodesic distance between the
\* end of the current path and the start of the next path (the two ends of
\* the bridge) is under 500 m; the bridge chosen has the smallest such
\* distance among the pairs of the boundary, and the chain continues from it
C24_GapUnder500BetweenPathEnds ==
    [][GapInserted =>
          LET gap == Last(totalRouteGap')
          IN  /\ geodesic_m(gap[1], Last(gap)) < 500
              /\ \A i \in 1..Len(routesFinal[boundary]) :
                    \A j \in 1..Len(routesFinal[boundary + 1]) :
                        LET end == Last(routesFinal[boundary][i])
                            start == routesFinal[boundary + 1][j][1]
                        IN  geodesic_m(end, start) < 500 =>
                                geodesic_m(gap[1], Last(gap)) <= geodesic_m(end, start)
              /\ lastRoute' = gap]_vars

\* what holds instead: the distance tested is the one between the nodes that
\* data1 and data2 were last bound to by the candidate loops, the chosen
\* bridge is the one of the first pair of paths, and the chain continues
\* from it
C24_GapTestsLastBoundAnchors ==
    [][GapInserted =>
          /\ geodesic_m(data1, data2) < 500
          /\ Last(totalRouteGap') =
                shortest_path(Last(routesFinal[boundary][1]), routesFinal[boundary + 1][1][1])
          /\ lastRoute' = Last(totalRouteGap')]_vars

\* an iteration of the reduction loop whose next boundary has no candidate
\* path at all
BeforeEmptyBoundary ==
    /\ spc = "reduce"
    /\ boundary < Len(routesFinal)
    /\ routesFinal[boundary] # << >>
    /\ routesFinal[boundary + 1] = << >>

\* C25: when a token boundary has no candidate path, every candidate path of
\* the previous boundary is emitted as unconfirmed and none as confirmed
C25_PathsBeforeBreakUnconfirmed ==
    [][BeforeEmptyBoundary =>
          /\ totalRouteConfirmed' = totalRouteConfirmed
          /\ totalRouteUnsure' = totalRouteUnsure \o routesFinal[boundary]]_vars

\* what holds instead: the paths that start where lastRoute ends are
\* confirmed, the others are unconfirmed, and lastRoute is carried on
C25_PathsBeforeBreakSplitOnLastRoute ==
    [][BeforeEmptyBoundary =>
          LET chained(r1) == lastRoute # << >> /\ r1[1] = Last(lastRoute)
              unchained(r1) == ~chained(r1)
          IN  /\ totalRouteConfirmed' =
                    totalRouteConfirmed \o SelectSeq(routesFinal[boundary], chained)
              /\ totalRouteUnsure' =
                    totalRouteUnsure \o SelectSeq(routesFinal[boundary], unchained)
              /\ lastRoute' # << >> <=> lastRoute # << >>]_vars

\* lines 130-140 on the lists of one iteration, as Reduce applies them
AfterIteration(acc, lists) ==
    IF lists.routesDraw = << >> /\ lists.gaps # << >>
    THEN [status |-> "ok",
          confirmada |-> IF min_gap(lists.gaps).distance < 500
                         THEN Append(acc.confirmada, min_gap(lists.gaps).r1)
                         ELSE acc.confirmada,
          hueco |-> IF min_gap(lists.gaps).distance < 500
                    THEN Append(acc.hueco, min_gap(lists.gaps).route)
                    ELSE acc.hueco,
          inconfirmada |-> acc.inconfirmada \o lists.unSureRoutes,
          lastRoute |-> min_gap(lists.gaps).route]
    ELSE [status |-> "ok",
          confirmada |-> acc.confirmada \o lists.routesDraw,
          hueco |-> acc.hueco,
          inconfirmada |-> acc.inconfirmada \o lists.unSureRoutes,
          lastRoute |-> IF lists.routesDraw # << >>
                        THEN Last(lists.routesDraw) ELSE acc.lastRoute]

RECURSIVE ReduceAlone(_, _, _, _, _)
\* the reduction loop from iteration k on, with data1/data2 bound to d1/d2
ReduceAlone(rf, k, d1, d2, acc) ==
    IF Len(acc.confirmada) < 0 \/ k > Len(rf) THEN acc
    ELSE IF k < Len(rf) /\ rf[k + 1] # << >> /\ bridge_raises(rf[k], rf[k + 1], d1, d2)
         THEN [acc EXCEPT !.status = "error"]
         ELSE ReduceAlone(rf, k + 1, d1, d2,
                  AfterIteration(acc,
                      iteration_lists(rf[k], IF k < Len(rf) THEN rf[k + 1] ELSE << >>,
                                      acc.lastRoute, d1, d2)))

\* what process_route computes for a leg that is the first leg of a call:
\* nothing is bound to data1/data2 before its candidate loops
LegAlone(way) ==
    ReduceAlone(routes_final(way), 1, LastBound1(way, 1, 0), LastBound2(way, 1, 0),
                [status |-> "ok", confirmada |-> << >>, hueco |-> << >>,
                 inconfirmada |-> << >>, lastRoute |-> << >>])

\* the k-th leg of the derivation: enumerate([ida, vuelta])
LegWay(k) == IF k = 1 THEN data[1].ida ELSE data[1].vuelta

\* the three lists of a finished leg
ThreeLists(r) ==
    [confirmada |-> r.confirmada, hueco |-> r.hueco, inconfirmada |-> r.inconfirmada]

\* C27: the result process_route computes for a leg depends only on the
\* leg's connection lists and the graph: whichever leg comes before it, the
\* leg gets the three lists it gets when it is run alone
C27_LegResultIndependentOfOtherLegs ==
    /\ \A k \in 1..Len(rutas) : rutas[k] = ThreeLists(LegAlone(LegWay(k)))
    /\ spc \in {"error", "returned"} =>
          \A k \in 1..2 : LegAlone(LegWay(k)).status = "ok" => k <= Len(rutas)

\* what holds instead: a leg that process_route gets to finish has the three
\* lists it has when run alone
C27_FinishedLegsAsAlone ==
    \A k \in 1..Len(rutas) :
        /\ LegAlone(LegWay(k)).status = "ok"
        /\ rutas[k] = ThreeLists(LegAlone(LegWay(k)))

\* some path of boundary k ends exactly where a path of boundary k + 1 starts
ChainsAt(k) ==
    /\ k < Len(routesFinal)
    /\ \E i \in 1..Len(routesFinal[k]) : \E j \in 1..Len(routesFinal[k + 1]) :
          Last(routesFinal[k][i]) = routesFinal[k + 1][j][1]

\* some pair of paths of boundaries k, k + 1 does not chain, and the bridge
\* found for it passes the 500 m test of line 121
BridgeFoundAt(k) ==
    /\ k < Len(routesFinal)
    /\ \E i \in 1..Len(routesFinal[k]) : \E j \in 1..Len(routesFinal[k + 1]) :
          Last(routesFinal[k][i]) # routesFinal[k + 1][j][1]
    /\ gap_distance(data1, data2) < 500

\* C30: at a token boundary where a candidate path ends exactly where a path
\* of the next boundary starts, the iteration adds no gap segment to the
\* leg's gap list, even if bridges under the threshold were found
C30_ChainingBeforeBridging ==
    [][(spc = "reduce" /\ ChainsAt(boundary)) => totalRouteGap' = totalRouteGap]_vars

\* an iteration has passed a boundary with both a chaining pair and a
\* qualifying bridge, and confirmed paths without adding a gap
C30_Witness ==
    /\ spc \in {"reduce", "store"}
    /\ boundary = 2
    /\ ChainsAt(1)
    /\ BridgeFoundAt(1)
    /\ totalRouteGap = << >>
    /\ totalRouteConfirmed # << >>

\* C6: every path that an iteration of the reduction loop appends to the leg's
\* confirmed list passed the anchor-containment check of the boundary
\* (C_i, C_i+1) the iteration is at: exactly two nodes of the two connection
\* sets lie on the path, and they are its two anchors n1 and n2.
C6_ConfirmedPassedAnchorCheck ==
    [][spc = "reduce" =>
          \A i \in (Len(totalRouteConfirmed) + 1)..Len(totalRouteConfirmed') :
              PassesAnchorCheck(Way[boundary], Way[boundary + 1],
                                totalRouteConfirmed'[i])]_vars

\* C6 witness: a leg finished with a confirmed path although, at one of its
\* boundaries, the shortest path between two anchors ran over a third
\* connection node and so failed the check.
C6_Witness ==
    /\ spc = "store"
    /\ totalRouteConfirmed # << >>
    /\ \E k \in 1..(Len(Way) - 1) :
          \E n1 \in AnchorNodes(Way[k]) : \E n2 \in AnchorNodes(Way[k + 1]) :
              /\ shortest_path(n1, n2) # << >>
              /\ ~PassesAnchorCheck(Way[k], Way[k + 1], shortest_path(n1, n2))

\* C7: in a finished leg whose unconfirmed list is empty, the confirmed paths
\* in list order chain end to start, directly or over one of the leg's gap
\* paths: each begins at the node where the previous one, or a gap path that
\* starts where the previous one ended, ends.
C7_ConfirmedAndGapChain ==
    (spc = "store" /\ totalRouteUnsure = << >>) =>
        \A i \in 1..(Len(totalRouteConfirmed) - 1) :
            LET prev == totalRouteConfirmed[i]
                next == totalRouteConfirmed[i + 1]
            IN  \/ Last(prev) = next[1]
                \/ \E g \in PathsIn(totalRouteGap) :
                      g[1] = Last(prev) /\ Last(g) = next[1]

\* the boundaries of the leg whose candidate-path list is empty
EmptyBoundaries == { k \in 1..Len(routesFinal) : routesFinal[k] = << >> }

\* the candidate lists of the leg at hand have been computed
Reducing == spc \in {"reduce", "store", "error"}

\* exactly one boundary has no candidate path, and it has a neighbour
OneEmptyBoundary ==
    /\ Reducing
    /\ Len(routesFinal) >= 2
    /\ Cardinality(EmptyBoundaries) = 1

\* the boundaries next to the empty one
AdjacentBoundaries ==
    { j \in 1..Len(routesFinal) : \E k \in EmptyBoundaries : j = k - 1 \/ j = k + 1 }

\* C8: for a leg in which exactly one boundary has an empty candidate list
\* and the boundaries next to it have candidates, the reduction raises no
\* error, and the finished leg holds every path of the adjacent boundaries in
\* its unconfirmed list.
C8_EmptyBoundaryLeavesNeighboursUnconfirmed ==
    OneEmptyBoundary =>
        /\ spc # "error"
        /\ spc = "store" =>
              \A j \in AdjacentBoundaries :
                  PathsIn(routesFinal[j]) \subseteq PathsIn(totalRouteUnsure)

\* a bridge between the two path ends qualifies: a path exists and the ends
\* are less than 500 m apart
BridgeQualifies(a, b) == shortest_path(a, b) # << >> /\ geodesic_m(a, b) < 500

\* every boundary has candidate paths, but no path ends where a path of the
\* next boundary starts and no bridge between two such ends qualifies
Disconnected ==
    /\ Reducing
    /\ Len(routesFinal) >= 2
    /\ EmptyBoundaries = {}
    /\ \A k \in 1..(Len(routesFinal) - 1) :
          \A r1 \in PathsIn(routesFinal[k]) : \A r2 \in PathsIn(routesFinal[k + 1]) :
              Last(r1) # r2[1] /\ ~BridgeQualifies(Last(r1), r2[1])

\* every candidate path of the leg
AllCandidates == UNION { PathsIn(routesFinal[k]) : k \in 1..Len(routesFinal) }

\* C9: for a completely disconnected leg the reduction raises no error, and
\* the finished leg has empty confirmed and gap lists and every candidate
\* path of the leg in its unconfirmed list.
C9_DisconnectedLegAllUnconfirmed ==
    Disconnected =>
        /\ spc # "error"
        /\ spc = "store" =>
              /\ totalRouteConfirmed = << >>
              /\ totalRouteGap = << >>
              /\ AllCandidates \subseteq PathsIn(totalRouteUnsure)

\* In a disconnected leg every one of whose bridging queries finds a path, the
\* reduction raises no error; the paths of the boundaries before the last are
\* then in none of the three lists (see C9).
C9_NoErrorWhenBridgesExist ==
    (/\ Disconnected
     /\ \A k \in 1..(Len(routesFinal) - 1) :
           \A r1 \in PathsIn(routesFinal[k]) : \A r2 \in PathsIn(routesFinal[k + 1]) :
               shortest_path(Last(r1), r2[1]) # << >>)
    => spc # "error"

\* C10: no shortest-path query that finds no path aborts process_route: the
\* function never ends in an uncaught NetworkXNoPath.
C10_NoPathIsNonFatal == spc # "error"

\* C11: the three lists of a finished leg are pairwise disjoint: no path is
\* in more than one of confirmada, hueco and inconfirmada.
C11_ListsPairwiseDisjoint ==
    spc = "store" =>
        /\ PathsIn(totalRouteConfirmed) \cap PathsIn(totalRouteGap) = {}
        /\ PathsIn(totalRouteConfirmed) \cap PathsIn(totalRouteUnsure) = {}
        /\ PathsIn(totalRouteGap) \cap PathsIn(totalRouteUnsure) = {}

\* C11 witness: a finished leg whose last boundary has both a path that
\* continues the chain (confirmed) and one that does not (unconfirmed).
C11_Witness ==
    /\ spc = "store"
    /\ totalRouteConfirmed # << >>
    /\ totalRouteUnsure # << >>
    /\ PathsIn(routesFinal[Len(routesFinal)]) \cap PathsIn(totalRouteConfirmed) # {}
    /\ PathsIn(routesFinal[Len(routesFinal)]) \cap PathsIn(totalRouteUnsure) # {}

\* C12: for a trace that references more than one route id the classifier
\* selects no variant: no copy of classify_route_variant returns a candidate
\* row for a mixed-route trace.
C12_MixedRoutesRejected ==
    (cpc = "classified" /\ MixedRoutes(clean_gdf)) => predicted.kind = "none"

\* C13: in deviation_analysis.py every unit whose trace was denoised is
\* classified into a (variant, summed distance) pair and gets an entry, and
\* the Deviation of every entry is the summed distance between the unit's
\* denoised trace and the predicted variant divided by the number of denoised
\* points.
C13_DeviationIsMeanDistance ==
    script = "deviation_analysis" =>
        /\ bpc = "record" => predicted_df.kind = "pair"
        /\ bpc = "error" => clean_df.status # "ok"
        /\ \A k \in 1..Len(records) :
              LET clean == clean_unit(units[records[k].unit], script)
              IN  /\ clean.status = "ok"
                  /\ records[k].Deviation =
                        << SumDistances(branches[records[k].Predicted_Branch],
                                        classified_rows(clean.rows)),
                           Len(clean.rows) >>

\* C14: a unit that fails while being denoised or classified does not end the
\* batch: the batch never stops on an exception, and when it is done it hands
\* on one entry for every unit.
C14_UnitFailureIsScoped ==
    /\ bpc # "error"
    /\ bpc = "done" => Len(saved.records) = Len(units)

\* C15: under every interleaving at most 4 plates are being processed at the
\* same time, process_plate starts at most once on a plate and exactly once
\* on every plate by the time the batch ends, and when the batch completes
\* all_streets holds exactly one result per submitted plate.
C15_BoundedPoolOneResultPerUnit ==
    /\ Cardinality(Running) <= 4
    /\ \A f \in 1..plates : runs[f] <= 1
    /\ ppc \in {"done", "error"} => \A f \in 1..plates : runs[f] = 1
    /\ ppc = "done" =>
          /\ Len(all_streets) = plates
          /\ \A f \in 1..plates : \E i \in 1..Len(all_streets) : all_streets[i] = f

\* C15 witness: a batch of more plates than workers completed, and its
\* results were collected in an order other than the order of submission.
C15_Witness ==
    /\ ppc = "done"
    /\ plates > 4
    /\ \E i \in 1..Len(all_streets) : all_streets[i] # i

\* C16: for a trace of fewer than 2 points clean_gps_data raises nothing and
\* returns the trace unchanged.
C16_ShortTraceUnchanged ==
    (dpc = "cleaned" /\ Len(gdf) < 2) => closest_gdf = Ok(gdf)

\* A trace of exactly one point comes back unchanged (see C16).
C16_OnePointUnchanged ==
    (dpc = "cleaned" /\ Len(gdf) = 1) => closest_gdf = Ok(gdf)

(***************************************************************************)
(* Name Resolver: properties                                               *)
(***************************************************************************)
\* A delivered token that stands for a u-turn, a return or a roundabout: the
\* two markers extraer_nombres writes, or a name whose first word is glorieta.
TopologyMarker(token) ==
    \/ token = VueltaEnU
    \/ token = RetornoMarker
    \/ (str_split(token) # << >> /\ str_lower(str_split(token)[1]) = Glorieta)

\* C17: every token that stands for a u-turn, a return or a roundabout, in
\* the form extraer_nombres delivers it, gets the empty candidate set and is
\* not matched against the gazetteer.
C17_TopologyMarkersResolveEmpty ==
    \A i \in 1..Len(nombres_calles) :
        TopologyMarker(lista_cruda[i]) => nombres_calles[i] = {} /\ i \notin compared

\* The two markers extraer_nombres writes itself are passed over (see C17).
C17_WrittenMarkersResolveEmpty ==
    \A i \in 1..Len(nombres_calles) :
        lista_cruda[i] \in {VueltaEnU, RetornoMarker} =>
            nombres_calles[i] = {} /\ i \notin compared

\* the name variants built from the token itself: the raw token and the
\* forms of lines 99-106 (prefixed, multi-word raw, multi-word base)
TokenVariants(calle) ==
    LET nombre_base == str_strip(reemplaza_abreviaciones(calle))
    IN  {calle}
          \cup { name_prefixes[i] \o <<" ">> \o nombre_base : i \in 1..Len(name_prefixes) }
          \cup (IF Len(str_split(nombre_base)) > 1 THEN {nombre_base} ELSE {})

\* the gazetteer entries that one of the names in variants matches: ratio
\* >= 0.95 on the diacritics-normalized forms, or the name is a substring
MatchedBy(variants, streets) ==
    { streets[s] : s \in
        { k \in 1..Len(streets) :
            \E v \in variants :
                \/ checar_similitud(unidecode(v), unidecode(streets[k]))
                \/ str_in(unidecode(v), unidecode(streets[k])) } }

C26_NearestEntryAlwaysCandidate ==
    \A i \in compared :
        /\ nombres_calles[i] \subseteq { street_list[k] : k \in 1..Len(street_list) }
        /\ encontrar_nombre_similar(lista_cruda[i], street_list) \in nombres_calles[i]
        /\ nombres_calles[i] =
              MatchedBy(TokenVariants(lista_cruda[i])
                          \cup {encontrar_nombre_similar(lista_cruda[i], street_list)},
                        street_list)

=============================================================================
